---------------------------- MODULE Spec2Model ----------------------------
(***************************************************************************)
(* Model of the retrieval-augmentation engine of chat-with-syllbus:        *)
(*   - EnhancedRAGService._build_context (services/enhanced_rag.py)        *)
(*   - RateLimiter and GeminiService.generate_answer (gemini_service.py)   *)
(*   - EnhancedRAGService.ask_question (services/enhanced_rag.py)          *)
(*   - the session store of routers/chat.py                                *)
(*                                                                         *)
(* Strings whose content matters are tuples of one-character strings;      *)
(* fixed literals of the source appear through their lengths.              *)
(* Scores are integers in units of 1e-4 (the precision of "{score:.4f}").  *)
(* enhanced_rag.py line 211 (the `return {` after `if not context_text or  *)
(* not sources:`) is read as the body of that `if`.                        *)
(***************************************************************************)
EXTENDS Integers, Sequences, FiniteSets, TLC

VARIABLES
    \* ---- EnhancedRAGService._build_context ----
    max_context_chars,  \* self.max_context_chars
    retrieved,          \* argument: list of (score, content, metadata)
    analysis,           \* argument: {"semesters": [...], "focus": ...}
    bundle,             \* returned (text, sources), or NoBundle before the call
    \* ---- RateLimiter, GeminiService.generate_answer, ask_question ----
    \* time is counted in hundredths of a second
    max_per_minute,    \* RateLimiter.max_per_minute
    call_timestamps,   \* RateLimiter.call_timestamps (deque, oldest first)
    clock,             \* time.time(), relative to the start of the process
    pc,                \* per thread: the statement it is about to execute
    loc,               \* per thread: the locals of acquire / generate_answer / ask_question
    result,            \* per thread: what the last call returned
    recorded,          \* history: every timestamp acquire appended
    invoked,           \* history: the start time of every model.generate_content call
    calls,             \* number of calls the callers have started
    \* ---- routers/chat.py: the session store; time is counted in seconds ----
    sessions,          \* SESSIONS: session id -> list of messages
    wall,              \* time.time(), seconds since the epoch
    response,          \* the response to the last request
    created,           \* history: when each stored session was inserted
    pruned,            \* history: what the last request's _prune_sessions removed
    known,             \* history: every session id that appeared so far
    requests,          \* number of requests served
    \* ---- the text functions applied on their own ----
    question_text,     \* argument of _analyze_question and _expand_query
    analysed,          \* what _analyze_question returned
    variants,          \* what _expand_query returned
    estimate,          \* a call of _estimate_confidence: arguments and result
    retrieval,         \* a call of _retrieve_with_sources: index behaviour and result
    \* ---- services/pdf_processor.py: PDFProcessor ----
    max_file_bytes,    \* self.max_file_bytes
    vectorstore,       \* self.vectorstore: the documents added and how many are persisted
    processed,         \* the last process_pdf call: the file, what it did, how it ended
    uploads,           \* number of process_pdf calls
    \* ---- routers/chat.py: the endpoints run by the worker threads ----
    worker,            \* per worker thread: its request, its position, its locals
    \* ---- services/mca_analysis.py: calculate_credits ----
    semesters,         \* argument: the list of semester names
    credits,           \* the CreditsResponse returned, NoCredits before the call
    \* ---- routers/documents.py: uploads, their background tasks, deletions ----
    docs               \* per doc_id: its STATUSES entry, its file, its _process task

ctxVars == <<max_context_chars, retrieved, analysis, bundle>>
genVars == <<max_per_minute, call_timestamps, clock, pc, loc, result,
             recorded, invoked, calls>>
sessVars == <<sessions, wall, response, created, pruned, known, requests>>
textVars == <<question_text, analysed, variants, estimate, retrieval>>
pdfVars == <<max_file_bytes, vectorstore, processed, uploads>>
workVars == <<worker>>
creditVars == <<semesters, credits>>
docVars == <<docs>>
restVars == <<textVars, pdfVars, workVars, creditVars, docVars>>
vars == <<ctxVars, genVars, sessVars, restVars>>

\* what the actions of one component leave alone
ctxFrame == <<genVars, sessVars, restVars>>
genFrame == <<max_context_chars, retrieved, analysis, bundle, sessVars, restVars>>
sessFrame == <<ctxVars, genVars, restVars>>
textFrame == <<ctxVars, genVars, sessVars, pdfVars, workVars, creditVars, docVars>>
pdfFrame == <<ctxVars, genVars, sessVars, textVars, workVars, creditVars, docVars>>
workFrame == <<ctxVars, genVars, textVars, pdfVars, creditVars, docVars>>
creditFrame == <<ctxVars, genVars, sessVars, textVars, pdfVars, workVars, docVars>>
docFrame == <<ctxVars, genVars, sessVars, textVars, pdfVars, workVars, creditVars>>

NoPage == -1     \* None in a page field of the metadata
NoText == <<>>   \* a missing or empty name field: both are falsy and read through `or`
NoBundle == [called |-> FALSE]

(***************************************************************************)
(* Bounds                                                                  *)
(***************************************************************************)
MaxRetrieved == 3       \* longest retrieval list handed to _build_context
MaxBudgetSlack == 2     \* budgets tried run up to this many chars past an exact fit

(***************************************************************************)
(* String helpers                                                          *)
(***************************************************************************)
Whitespace == {" ", "TAB"}   \* "TAB" stands for "\t"

RECURSIVE DecLen(_)
\* len(str(n)) for a non-negative integer n
DecLen(n) == IF n < 10 THEN 1 ELSE 1 + DecLen(n \div 10)

RECURSIVE TrailWs(_)
\* number of trailing whitespace characters of s, what str.strip() removes on the right
TrailWs(s) ==
    IF s = <<>> THEN 0
    ELSE IF s[Len(s)] \in Whitespace THEN 1 + TrailWs(SubSeq(s, 1, Len(s) - 1))
    ELSE 0

RECURSIVE LeadWs(_)
\* number of leading whitespace characters of s
LeadWs(s) ==
    IF s = <<>> THEN 0
    ELSE IF Head(s) \in Whitespace THEN 1 + LeadWs(Tail(s))
    ELSE 0

\* str.strip() on a tuple of characters
StripChars(s) ==
    IF LeadWs(s) = Len(s) THEN <<>>
    ELSE SubSeq(s, LeadWs(s) + 1, Len(s) - TrailWs(s))

\* sub in s
Contains(s, sub) ==
    \E i \in 1..(Len(s) - Len(sub) + 1) : SubSeq(s, i, i + Len(sub) - 1) = sub

StartsWithAt(s, i, sub) ==
    i + Len(sub) - 1 <= Len(s) /\ SubSeq(s, i, i + Len(sub) - 1) = sub

RECURSIVE ReplaceFrom(_, _, _, _)
\* s[i:].replace(sub, new): left to right, without overlap
ReplaceFrom(s, i, sub, new) ==
    IF i > Len(s) THEN <<>>
    ELSE IF StartsWithAt(s, i, sub) THEN new \o ReplaceFrom(s, i + Len(sub), sub, new)
    ELSE <<s[i]>> \o ReplaceFrom(s, i + 1, sub, new)

\* s.replace(sub, new), for a non-empty sub
Replace(s, sub, new) == ReplaceFrom(s, 1, sub, new)

UpperChars == <<"A","B","C","D","E","F","G","H","I","J","K","L","M",
                "N","O","P","Q","R","S","T","U","V","W","X","Y","Z">>
LowerChars == <<"a","b","c","d","e","f","g","h","i","j","k","l","m",
                "n","o","p","q","r","s","t","u","v","w","x","y","z">>

LowerChar(c) ==
    IF \E i \in 1..26 : UpperChars[i] = c
    THEN LowerChars[CHOOSE i \in 1..26 : UpperChars[i] = c]
    ELSE c

\* str.lower()
Lower(s) == [i \in 1..Len(s) |-> LowerChar(s[i])]

RECURSIVE SumLens(_)
SumLens(parts) == IF parts = <<>> THEN 0 ELSE Head(parts).len + SumLens(Tail(parts))

(***************************************************************************)
(* Literals of _build_context, by length                                   *)
(***************************************************************************)
GuideLen == 369            \* len(generate_mca_context_prompt())
GuidancePrefixLen == 10    \* "Guidance: "
FocusPrefixLen == 8        \* "\nFocus: "
SemestersPrefixLen == 14   \* " | Semesters: "
HeaderPrefixLen == 11      \* "[" + "] Source: "
PagePrefixLen == 7         \* ", page "
ScorePrefixLen == 9        \* " (score: "
ScoreFracLen == 5          \* ".dddd" of {score:.4f}
CoverageHeadLen == 19      \* "Document coverage:\n"
CoverageLineFixedLen == 19 \* "- " + ": " + " context blocks"
DefaultName == <<"d","o","c","u","m","e","n","t">>

FocusLen(focus) ==
    CASE focus = "credits" -> 7
      [] focus = "prerequisite" -> 12
      [] focus = "grading" -> 7
      [] focus = "career" -> 6
      [] focus = "project" -> 7
      [] OTHER -> 7  \* "general"

RECURSIVE SumSeqLens(_)
SumSeqLens(strs) == IF strs = <<>> THEN 0 ELSE Len(Head(strs)) + SumSeqLens(Tail(strs))

\* len(', '.join(semesters or ['all']))
SemJoinLen(sems) == IF sems = <<>> THEN 3 ELSE SumSeqLens(sems) + 2 * (Len(sems) - 1)

\* Python truthiness of metadata values: None and "" are falsy names,
\* None and 0 are falsy pages
TruthyText(v) == v # NoText
TruthyPage(v) == v # NoPage /\ v # 0

\* len(f"{score:.4f}") for a score held in units of 1e-4
ScoreLen(score) == DecLen(score \div 10000) + ScoreFracLen

\* _hash_text: a digest of the text, collision-free on the texts of the model
HashText(content) == <<"sha1", content>>

\* the guidance part appended first (line 125)
GuidePart(an) ==
    [kind |-> "guide", idx |-> 0,
     len |-> GuidancePrefixLen + GuideLen + FocusPrefixLen + FocusLen(an.focus)
             + SemestersPrefixLen + SemJoinLen(an.semesters) + 1,
     tw |-> 1]

\* context_mentions_semester (lines 128-133)
ContextMentionsSemester(content, an) ==
    IF an.semesters = <<>> THEN TRUE
    ELSE \E k \in 1..Len(an.semesters) :
            Contains(Lower(content),
                     StripChars(Replace(an.semesters[k], <<"s","e","m">>, <<>>)))

\* meta.get("source") or meta.get("file_path") or "document" (line 137)
MetaName(meta) ==
    IF TruthyText(meta.source) THEN meta.source
    ELSE IF TruthyText(meta.file_path) THEN meta.file_path
    ELSE DefaultName

\* meta.get("page") or meta.get("page_number") or meta.get("page_index") (line 138):
\* the last operand is returned as it is, so a page_index of 0 survives
MetaPage(meta) ==
    IF TruthyPage(meta.page) THEN meta.page
    ELSE IF TruthyPage(meta.page_number) THEN meta.page_number
    ELSE meta.page_index

\* the segment try_append renders for rank idx (lines 137-143)
Segment(idx, item) ==
    LET name == MetaName(item.meta)
        page == MetaPage(item.meta)
        headerLen == HeaderPrefixLen + DecLen(idx) + Len(name)
                     + (IF page # NoPage THEN PagePrefixLen + DecLen(page) ELSE 0)
                     + ScorePrefixLen + ScoreLen(item.score) + 1
        c == item.content
    IN  [kind |-> "segment", idx |-> idx, content |-> c,
         len |-> headerLen + 1 + Len(c) + 1,
         tw |-> IF TrailWs(c) = Len(c) THEN Len(c) + 2 ELSE TrailWs(c) + 1]

SourceRef(idx, item) ==
    [index |-> idx, name |-> MetaName(item.meta), page |-> MetaPage(item.meta),
     score |-> item.score]

\* try_append (lines 135-149): the packing state after the attempt, and whether it fit
TryAppendFits(st, idx, item, maxChars) == st.total + Segment(idx, item).len <= maxChars

TryAppend(st, idx, item) ==
    [parts |-> Append(st.parts, Segment(idx, item)),
     sources |-> Append(st.sources, SourceRef(idx, item)),
     total |-> st.total + Segment(idx, item).len]

RECURSIVE DedupFrom_KeepFirst(_, _)
DedupFrom_KeepFirst(acc, rest) ==
    IF rest = <<>> THEN acc
    ELSE IF \E i \in 1..Len(acc) : acc[i].content = Head(rest).content
         THEN DedupFrom_KeepFirst(acc, Tail(rest))
         ELSE DedupFrom_KeepFirst(Append(acc, Head(rest)), Tail(rest))

RECURSIVE DedupFrom(_, _)
\* lines 112-116: by_hash keeps first-insertion order, the lower score wins
DedupFrom(acc, rest) ==
    IF rest = <<>> THEN acc
    ELSE LET c == Head(rest)
             pos == {i \in 1..Len(acc) : HashText(acc[i].content) = HashText(c.content)}
         IN  IF pos = {} THEN DedupFrom(Append(acc, c), Tail(rest))
             ELSE LET p == CHOOSE i \in pos : TRUE
                  IN  IF c.score < acc[p].score
                      THEN DedupFrom([acc EXCEPT ![p] = c], Tail(rest))
                      ELSE DedupFrom(acc, Tail(rest))

RECURSIVE SortedByScore(_)
\* sorted(by_hash.values(), key=score): stable insertion sort, ascending
SortedByScore(items) ==
    IF items = <<>> THEN <<>>
    ELSE LET n == Len(items)
             front == SortedByScore(SubSeq(items, 1, n - 1))
             x == items[n]
             k == Cardinality({i \in 1..Len(front) : front[i].score <= x.score})
         IN  SubSeq(front, 1, k) \o <<x>> \o SubSeq(front, k + 1, Len(front))

RECURSIVE PackLoop_BestFit(_, _, _, _, _, _)
PackLoop_BestFit(items, i, st, filtered, an, maxChars) ==
    IF i > Len(items) THEN st
    ELSE IF filtered /\ ~ContextMentionsSemester(items[i].content, an)
         THEN PackLoop_BestFit(items, i + 1, st, filtered, an, maxChars)
    ELSE IF ~TryAppendFits(st, i, items[i], maxChars)
         THEN PackLoop_BestFit(items, i + 1, st, filtered, an, maxChars)
    ELSE PackLoop_BestFit(items, i + 1, TryAppend(st, i, items[i]), filtered, an, maxChars)

RECURSIVE PackLoop(_, _, _, _, _, _)
\* the loops of lines 152-156 (filtered) and 159-161 (unfiltered): enumerate from 1,
\* skip chunks the filter rejects, stop at the first segment that does not fit
PackLoop(items, i, st, filtered, an, maxChars) ==
    IF i > Len(items) THEN st
    ELSE IF filtered /\ ~ContextMentionsSemester(items[i].content, an)
         THEN PackLoop(items, i + 1, st, filtered, an, maxChars)
    ELSE IF ~TryAppendFits(st, i, items[i], maxChars) THEN st
    ELSE PackLoop(items, i + 1, TryAppend(st, i, items[i]), filtered, an, maxChars)

\* doc_counts (lines 164-166) as the sequence of distinct names, in first-seen order
RECURSIVE DistinctNames(_)
DistinctNames(sources) ==
    IF sources = <<>> THEN <<>>
    ELSE LET front == DistinctNames(SubSeq(sources, 1, Len(sources) - 1))
             nm == sources[Len(sources)].name
         IN  IF \E i \in 1..Len(front) : front[i] = nm THEN front ELSE Append(front, nm)

CountOf(sources, nm) == Cardinality({i \in 1..Len(sources) : sources[i].name = nm})

RECURSIVE CoverageLinesLen(_, _)
CoverageLinesLen(names, sources) ==
    IF names = <<>> THEN 0
    ELSE CoverageLineFixedLen + Len(Head(names)) + DecLen(CountOf(sources, Head(names)))
         + (IF Len(names) > 1 THEN 1 ELSE 0) + CoverageLinesLen(Tail(names), sources)

\* summary_text (lines 167-168)
SummaryPart(sources) ==
    [kind |-> "summary", idx |-> 0,
     len |-> CoverageHeadLen + CoverageLinesLen(DistinctNames(sources), sources) + 1,
     tw |-> 1]

\* len("\n".join(context_parts).strip()) (line 172); the text starts with "Guidance"
JoinedStrippedLen(parts) ==
    SumLens(parts) + (Len(parts) - 1) - parts[Len(parts)].tw

BuildContext_NoFallback(retr, an, maxChars) ==
    IF retr = <<>> THEN [called |-> TRUE, text_len |-> 0, parts |-> <<>>, sources |-> <<>>]
    ELSE
    LET sorted_items == SortedByScore(DedupFrom(<<>>, retr))
        st0 == [parts |-> <<GuidePart(an)>>, sources |-> <<>>, total |-> GuidePart(an).len]
        st1 == PackLoop(sorted_items, 1, st0, an.semesters # <<>>, an, maxChars)
        parts == IF st1.sources # <<>>
                    /\ st1.total + SummaryPart(st1.sources).len <= maxChars
                 THEN Append(st1.parts, SummaryPart(st1.sources))
                 ELSE st1.parts
    IN  [called |-> TRUE, text_len |-> JoinedStrippedLen(parts), parts |-> parts,
         sources |-> st1.sources]

\* _build_context (lines 104-172)
BuildContext(retr, an, maxChars) ==
    IF retr = <<>> THEN [called |-> TRUE, text_len |-> 0, parts |-> <<>>, sources |-> <<>>]
    ELSE
    LET sorted_items == SortedByScore(DedupFrom(<<>>, retr))
        st0 == [parts |-> <<GuidePart(an)>>, sources |-> <<>>, total |-> GuidePart(an).len]
        applied_filter == an.semesters # <<>>
        st1 == PackLoop(sorted_items, 1, st0, applied_filter, an, maxChars)
        st2 == IF applied_filter /\ st1.sources = <<>>
               THEN PackLoop(sorted_items, 1, st1, FALSE, an, maxChars)
               ELSE st1
        parts == IF st2.sources # <<>>
                    /\ st2.total + SummaryPart(st2.sources).len <= maxChars
                 THEN Append(st2.parts, SummaryPart(st2.sources))
                 ELSE st2.parts
    IN  [called |-> TRUE, text_len |-> JoinedStrippedLen(parts), parts |-> parts,
         sources |-> st2.sources]

(***************************************************************************)
(* Inputs of the context packer                                            *)
(***************************************************************************)
NameA == <<"a">>
NameB == <<"b","2">>
NoMeta == [source |-> NoText, file_path |-> NoText, page |-> NoPage,
           page_number |-> NoPage, page_index |-> NoPage]

\* retrieved chunks: contents with and without semester digits, a duplicate text
\* with two scores, a page-0 chunk, a chunk named through file_path
ChunkUniverse ==
    { [score |-> 1000,  content |-> <<"x">>,     meta |-> [NoMeta EXCEPT !.source = NameA, !.page = 3]],
      [score |-> 2000,  content |-> <<"s","1">>, meta |-> [NoMeta EXCEPT !.source = NameA, !.page = 0]],
      [score |-> 3000,  content |-> <<"s","2">>, meta |-> [NoMeta EXCEPT !.file_path = NameB, !.page_number = 12]],
      [score |-> 10000, content |-> <<"s","1">>, meta |-> [NoMeta EXCEPT !.source = NameB]],
      [score |-> 2000,  content |-> <<"y"," ">>, meta |-> NoMeta] }

RetrievedLists == UNION {[1..n -> ChunkUniverse] : n \in 0..MaxRetrieved}

Sem1 == <<"s","e","m","1">>
Sem2 == <<"s","e","m","2">>

Analyses ==
    {[semesters |-> s, focus |-> f] :
        s \in {<<>>, <<Sem1>>, <<Sem1, Sem2>>}, f \in {"credits", "general"}}

\* the budget needed for the guidance part and every segment of a list, without separators
ExactFit(retr, an) ==
    LET items == SortedByScore(DedupFrom(<<>>, retr))
    IN  GuidePart(an).len
        + SumLens([i \in 1..Len(items) |-> Segment(i, items[i])])

\* the budgets one character short of the guidance part and the first k segments
PrefixBudgets(retr, an) ==
    LET items == SortedByScore(DedupFrom(<<>>, retr))
    IN  {GuidePart(an).len + SumLens([i \in 1..k |-> Segment(i, items[i])]) - 1
            : k \in 1..Len(items)}

DefaultMaxContextChars == 6000

CtxInit ==
    /\ retrieved \in RetrievedLists
    /\ analysis \in Analyses
    /\ max_context_chars \in
          {DefaultMaxContextChars, GuidePart(analysis).len - 1}
          \cup (ExactFit(retrieved, analysis) - 1
                .. ExactFit(retrieved, analysis) + MaxBudgetSlack)
          \cup PrefixBudgets(retrieved, analysis)
    /\ bundle = NoBundle

\* a call of _build_context(retrieved, analysis)
BuildContextCall ==
    /\ bundle = NoBundle
    /\ bundle' = BuildContext(retrieved, analysis, max_context_chars)
    /\ UNCHANGED <<max_context_chars, retrieved, analysis>>
    /\ UNCHANGED ctxFrame

\* the context packer at rest, for the specifications of the other components
CtxIdle ==
    /\ max_context_chars = DefaultMaxContextChars
    /\ retrieved = <<>>
    /\ analysis = [semesters |-> <<>>, focus |-> "general"]
    /\ bundle = NoBundle

(***************************************************************************)
(* Texts of the generation backend: a text is a sequence of atoms, each    *)
(* atom a fixed piece of text that no searched marker straddles.           *)
(***************************************************************************)
FallbackLen == 113   \* len(fallback), gemini_service.py line 142
ConfidenceLenCap == 600   \* len(answer_text) / 600.0, line 92

AtomLen(a) ==
    CASE a = " " -> 1
      [] a = "NL" -> 1             \* "\n"
      [] a = "Confidence:" -> 11
      [] a = "low" -> 3
      [] a = "medium" -> 6
      [] a = "high" -> 4
      [] a = "Answer" -> 6         \* a short answer sentence
      [] a = "Essay" -> 700        \* a long answer, past the 600-character cap
      [] a = "Fallback" -> FallbackLen
      [] a = "PleaseProvide" -> 54 \* the answer of enhanced_rag.py line 203
      [] a = "IDontKnow" -> 111    \* the answer of enhanced_rag.py line 212
      [] a = "- " -> 2
      [] a = "T240" -> 240         \* texts of 240 and of 300 characters
      [] a = "T300" -> 300
      [] OTHER -> 1

AtomIsSpace(a) == a \in {" ", "NL"}

RECURSIVE TextLen(_)
TextLen(t) == IF t = <<>> THEN 0 ELSE AtomLen(Head(t)) + TextLen(Tail(t))

RECURSIVE LStrip(_)
LStrip(t) == IF t # <<>> /\ AtomIsSpace(Head(t)) THEN LStrip(Tail(t)) ELSE t

RECURSIVE RStrip(_)
RStrip(t) ==
    IF t # <<>> /\ AtomIsSpace(t[Len(t)]) THEN RStrip(SubSeq(t, 1, Len(t) - 1)) ELSE t

\* str.strip()
Strip(t) == RStrip(LStrip(t))

HasAtom(t, a) == \E i \in 1..Len(t) : t[i] = a

(***************************************************************************)
(* Exception messages: tuples of characters, searched as str(exc).lower()  *)
(***************************************************************************)
TransientMarkers ==
    { <<"4","2","9">>, <<"r","a","t","e">>,
      <<"t","e","m","p","o","r","a","r","i","l","y">>,
      <<"d","e","a","d","l","i","n","e">>, <<"t","i","m","e","o","u","t">> }

\* the test of line 133 on msg = str(exc).lower()
IsTransient(exc) == \E m \in TransientMarkers : Contains(Lower(exc), m)

ErrorMessages ==
    { <<"4","2","9">>,                                  \* "429"
      <<"R","a","t","e"," ","l","i","m","i","t">>,      \* "Rate limit"
      <<"b","a","d"," ","k","e","y">>,                  \* "bad key"
      <<"4","0","3">> }                                 \* "403"

Responses ==
    { <<>>,                                             \* no text
      <<" ">>,                                          \* blank text
      <<"Answer", "NL">>,
      <<"Essay", "NL", "Confidence:", " ", "high">>,
      <<"Answer", ";", " ", "Answer", ";", "Answer">> }

BackendOutcomes ==
    {[kind |-> "ok", text |-> r, msg |-> <<>>] : r \in Responses}
    \cup {[kind |-> "raise", text |-> <<>>, msg |-> m] : m \in ErrorMessages}

(***************************************************************************)
(* RateLimiter and GeminiService.generate_answer                           *)
(***************************************************************************)
Threads == {1, 2}
Callers == {1}        \* the single sequential caller

MaxRate == 2          \* max_per_minute ranges over 1..MaxRate
MaxCalls == 3         \* generate_answer calls per behaviour
MaxAsks == 2          \* ask_question calls per behaviour
AskPauses == {0, 6000}   \* time the caller lets pass before an ask_question call
SmallContextChars == 100
Pauses == {0, 3000, 6000}   \* time the caller lets pass before a call: 0 s, 30 s, 60 s

MaxConcCalls == 2     \* generate_answer calls of the two threads together
\* what the backend does to a call made by one of two concurrent threads
ConcOutcomes ==
    {[kind |-> "ok", text |-> <<"Answer", "NL">>, msg |-> <<>>],
     [kind |-> "raise", text |-> <<>>, msg |-> <<"4","2","9">>]}

Window == 6000        \* 60.0 s
Margin == 1           \* 0.01 s
MaxAttempts == 3      \* max_attempts, line 111
InitialDelay == 100   \* delay = 1.0, line 112
ConfUnit == 1200      \* confidences are held in 1/1200ths
FallbackConfidence == 240   \* 0.2

\* the keys of the dict ask_question returns; `keys` of a result names those present
AllKeys == {"answer", "sources", "confidence", "confidence_explanation", "follow_up"}
NoExplanation == [level |-> "", blocks |-> 0, sources |-> 0]

NoResult ==
    [kind |-> "none", keys |-> {}, answer |-> <<>>, sources |-> <<>>, confidence |-> 0,
     confidence_explanation |-> NoExplanation, follow_up |-> ""]

\* what ask_question did on the index: calls of each search, whether an
\* exception escaped the scoreless search, and how many tuples came back
NoIndexUse == [scored_calls |-> 0, plain_calls |-> 0, failed |-> FALSE, returned |-> 0]

InitLoc ==
    [caller |-> "none", context_blank |-> FALSE,
     now |-> 0, wake |-> 0, at_cap |-> FALSE, oldest |-> 0,
     sleep_for |-> 0, acq_sleeps |-> <<>>,
     attempt |-> 0, delay |-> 0,
     acquires |-> 0, invocations |-> 0, sleeps |-> <<>>, outcomes |-> <<>>,
     question |-> <<>>, analysis |-> [semesters |-> <<>>, focus |-> "general"],
     index_use |-> NoIndexUse, chunks |-> {}, packed |-> 0, cited |-> {},
     sources |-> <<>>]

GenIdle ==
    /\ call_timestamps = <<>>
    /\ clock = 0
    /\ pc = [t \in Threads |-> "idle"]
    /\ loc = [t \in Threads |-> InitLoc]
    /\ result = [t \in Threads |-> NoResult]
    /\ recorded = <<>>
    /\ invoked = <<>>
    /\ calls = 0

GenInit ==
    /\ max_per_minute \in 1..MaxRate
    /\ GenIdle

EstimateConfidence_Inclusive(answer_text, context_blank) ==
    IF Strip(answer_text) = <<>> THEN [label |-> "low", score |-> FallbackConfidence]
    ELSE
    LET n == TextLen(answer_text)
        len_score == IF n < ConfidenceLenCap THEN n ELSE ConfidenceLenCap
        raw == 360 + len_score + (IF context_blank THEN 0 ELSE 600)
        score == IF raw > ConfUnit THEN ConfUnit ELSE raw
    IN  [label |-> IF score >= 900 THEN "high" ELSE IF score >= 600 THEN "medium" ELSE "low",
         score |-> score]

\* as _estimate_confidence, without the share of the context
EstimateConfidence_NoContext(answer_text, context_blank) ==
    IF Strip(answer_text) = <<>> THEN [label |-> "low", score |-> FallbackConfidence]
    ELSE
    LET n == TextLen(answer_text)
        score == 360 + (IF n < ConfidenceLenCap THEN n ELSE ConfidenceLenCap)
    IN  [label |-> IF score > 900 THEN "high" ELSE IF score > 600 THEN "medium" ELSE "low",
         score |-> score]

\* _estimate_confidence (lines 86-97): (label, score), the score in 1/1200ths
EstimateConfidence(answer_text, context_blank) ==
    IF Strip(answer_text) = <<>> THEN [label |-> "low", score |-> FallbackConfidence]
    ELSE
    LET n == TextLen(answer_text)
        len_score == IF n < ConfidenceLenCap THEN n ELSE ConfidenceLenCap  \* 0.5*min(len/600, 1)
        context_factor == IF context_blank THEN 0 ELSE 600                 \* 0.5
        raw == 360 + len_score + context_factor                            \* 0.3 + ...
        score == IF raw > ConfUnit THEN ConfUnit ELSE raw
    IN  [label |-> IF score > 900 THEN "high" ELSE IF score > 600 THEN "medium" ELSE "low",
         score |-> score]

SuccessResult_NoLabel(text, context_blank) ==
    [NoResult EXCEPT
     !.kind = "ok", !.keys = {"answer", "confidence"},
     !.answer = Strip(text),
     !.confidence = EstimateConfidence(text, context_blank).score]

\* lines 118-127: the result built from a backend response
SuccessResult(text, context_blank) ==
    LET conf == EstimateConfidence(text, context_blank)
        formatted == Strip(text)
    IN  [NoResult EXCEPT
         !.kind = "ok", !.keys = {"answer", "confidence"},
         !.answer = IF HasAtom(formatted, "Confidence:") THEN formatted
                    ELSE formatted \o <<"NL", "NL", "Confidence:", " ", conf.label>>,
         !.confidence = conf.score]

\* lines 141-143
FallbackResult ==
    [NoResult EXCEPT
     !.kind = "fallback", !.keys = {"answer", "confidence"},
     !.answer = <<"Fallback", "NL", "NL", "Confidence:", " ", "low">>,
     !.confidence = FallbackConfidence]

SleepFor_NoMargin(now, oldest) == Window - (now - oldest)

SleepFor_FromNow(now, oldest) == Window + (now - oldest) + Margin

\* line 32: sleep_for = 60.0 - (now - call_timestamps[0]) + 0.01
SleepFor(now, oldest) == Window - (now - oldest) + Margin

AfterException_Propagate(exc) == IF IsTransient(exc) THEN "backoff" ELSE "raise"

AfterException_AlwaysRetry(exc) == "backoff"

\* the except clause (lines 128-139): where control goes after an exception
AfterException(exc) == IF IsTransient(exc) THEN "backoff" ELSE "fallback"

NextDelay_Constant(delay) == delay

\* line 136
NextDelay(delay) == delay * 2

\* generate_answer(question, context) called directly, `pause` after the
\* caller's previous call returned; control reaches line 109
GenerateAnswer(t, ctxBlank, pause) ==
    /\ pc[t] = "idle"
    /\ calls < MaxCalls
    /\ calls' = calls + 1
    /\ clock' = clock + pause
    /\ pc' = [pc EXCEPT ![t] = "acq_now"]
    /\ loc' = [loc EXCEPT ![t] = [InitLoc EXCEPT !.caller = "direct",
                                    !.context_blank = ctxBlank, !.acquires = 1]]
    /\ result' = [result EXCEPT ![t] = NoResult]
    /\ UNCHANGED <<max_per_minute, call_timestamps, recorded, invoked>>
    /\ UNCHANGED genFrame

\* line 27: now = time.time()
AcqReadClock(t) ==
    /\ pc[t] = "acq_now"
    /\ loc' = [loc EXCEPT ![t].now = clock]
    /\ pc' = [pc EXCEPT ![t] = "acq_prune"]
    /\ UNCHANGED <<max_per_minute, call_timestamps, clock, result, recorded, invoked, calls>>
    /\ UNCHANGED genFrame

\* lines 29-30: one test of the while loop, and one popleft if it holds
AcqPrune(t) ==
    /\ pc[t] = "acq_prune"
    /\ IF call_timestamps # <<>> /\ loc[t].now - Head(call_timestamps) > Window
       THEN /\ call_timestamps' = Tail(call_timestamps)
            /\ pc' = pc
       ELSE /\ call_timestamps' = call_timestamps
            /\ pc' = [pc EXCEPT ![t] = "acq_test"]
    /\ UNCHANGED <<max_per_minute, clock, loc, result, recorded, invoked, calls>>
    /\ UNCHANGED genFrame

\* lines 31-35: the cap test, sleep_for, and the start of time.sleep
AcqTest(t) ==
    /\ pc[t] = "acq_test"
    /\ IF Len(call_timestamps) >= max_per_minute
       THEN LET sleep_for == SleepFor(loc[t].now, Head(call_timestamps))
            IN  /\ loc' = [loc EXCEPT ![t].at_cap = TRUE,
                                      ![t].oldest = Head(call_timestamps),
                                      ![t].sleep_for = sleep_for,
                                      ![t].wake = clock + sleep_for]
                /\ pc' = [pc EXCEPT ![t] = IF sleep_for > 0 THEN "acq_sleep"
                                           ELSE "acq_append"]
       ELSE /\ loc' = loc
            /\ pc' = [pc EXCEPT ![t] = "acq_append"]
    /\ UNCHANGED <<max_per_minute, call_timestamps, clock, result, recorded, invoked, calls>>
    /\ UNCHANGED genFrame

\* line 35: time.sleep(sleep_for) returns
AcqSleep(t) ==
    /\ pc[t] = "acq_sleep"
    /\ clock' = IF clock < loc[t].wake THEN loc[t].wake ELSE clock
    /\ loc' = [loc EXCEPT ![t].acq_sleeps = Append(@, loc[t].sleep_for)]
    /\ pc' = [pc EXCEPT ![t] = "acq_append"]
    /\ UNCHANGED <<max_per_minute, call_timestamps, result, recorded, invoked, calls>>
    /\ UNCHANGED genFrame

\* line 36: self.call_timestamps.append(time.time()); acquire returns
AcqAppend(t) ==
    /\ pc[t] = "acq_append"
    /\ call_timestamps' = Append(call_timestamps, clock)
    /\ recorded' = Append(recorded, clock)
    /\ loc' = [loc EXCEPT ![t].attempt = 1, ![t].delay = InitialDelay]
    /\ pc' = [pc EXCEPT ![t] = "attempt"]
    /\ UNCHANGED <<max_per_minute, clock, result, invoked, calls>>
    /\ UNCHANGED genFrame

\* lines 116-139: one pass of the retry loop, up to the sleep of a transient failure
Attempt(t, outcome) ==
    /\ pc[t] = "attempt"
    /\ invoked' = Append(invoked, clock)
    /\ LET l == [loc[t] EXCEPT !.invocations = @ + 1,
                               !.outcomes = Append(@, outcome)]
       IN  IF outcome.kind = "ok"
           THEN /\ result' = [result EXCEPT ![t] = SuccessResult(outcome.text, l.context_blank)]
                /\ loc' = [loc EXCEPT ![t] = l]
                /\ pc' = [pc EXCEPT ![t] = "gen_return"]
           ELSE IF AfterException(outcome.msg) = "backoff"
           THEN /\ result' = result
                /\ loc' = [loc EXCEPT ![t] = [l EXCEPT !.wake = clock + l.delay]]
                /\ pc' = [pc EXCEPT ![t] = "backoff"]
           ELSE IF AfterException(outcome.msg) = "fallback"
           THEN /\ result' = [result EXCEPT ![t] = FallbackResult]
                /\ loc' = [loc EXCEPT ![t] = l]
                /\ pc' = [pc EXCEPT ![t] = "gen_return"]
           ELSE \* the exception leaves generate_answer
                /\ result' = [result EXCEPT ![t] = [NoResult EXCEPT !.kind = "raised"]]
                /\ loc' = [loc EXCEPT ![t] = l]
                /\ pc' = [pc EXCEPT ![t] = "gen_return"]
    /\ UNCHANGED <<max_per_minute, call_timestamps, clock, recorded, calls>>
    /\ UNCHANGED genFrame

\* lines 135-137: time.sleep(delay) returns, delay *= 2, continue; the loop
\* ends after max_attempts passes and the fallback is returned (lines 141-143)
Backoff(t) ==
    /\ pc[t] = "backoff"
    /\ clock' = IF clock < loc[t].wake THEN loc[t].wake ELSE clock
    /\ loc' = [loc EXCEPT ![t].sleeps = Append(@, loc[t].delay),
                          ![t].delay = NextDelay(loc[t].delay),
                          ![t].attempt = @ + 1]
    /\ IF loc[t].attempt + 1 > MaxAttempts
       THEN /\ result' = [result EXCEPT ![t] = FallbackResult]
            /\ pc' = [pc EXCEPT ![t] = "gen_return"]
       ELSE /\ result' = result
            /\ pc' = [pc EXCEPT ![t] = "attempt"]
    /\ UNCHANGED <<max_per_minute, call_timestamps, recorded, invoked, calls>>
    /\ UNCHANGED genFrame

\* the direct caller receives the result
GenReturn(t) ==
    /\ pc[t] = "gen_return"
    /\ loc[t].caller = "direct"
    /\ pc' = [pc EXCEPT ![t] = "idle"]
    /\ loc' = [loc EXCEPT ![t] = InitLoc]
    /\ result' = [result EXCEPT ![t] = NoResult]
    /\ UNCHANGED <<max_per_minute, call_timestamps, clock, recorded, invoked, calls>>
    /\ UNCHANGED genFrame

(***************************************************************************)
(* EnhancedRAGService: _analyze_question, _expand_query,                   *)
(* _retrieve_with_sources, ask_question                                    *)
(***************************************************************************)
SemDigits == {"1","2","3","4","5","6","7","8"}

RECURSIVE SkipWs(_, _)
\* the first index from i on that holds no whitespace (\s*)
SkipWs(s, i) == IF i <= Len(s) /\ s[i] \in Whitespace THEN SkipWs(s, i + 1) ELSE i

\* sem(?:ester)?\s*[1-8] matched at index i: the index of its last character, 0 if none
MatchSemAt(s, i) ==
    IF ~StartsWithAt(s, i, <<"s","e","m">>) THEN 0
    ELSE LET long == IF StartsWithAt(s, i + 3, <<"e","s","t","e","r">>)
                     THEN SkipWs(s, i + 8) ELSE 0
             short == SkipWs(s, i + 3)
         IN  IF long # 0 /\ long <= Len(s) /\ s[long] \in SemDigits THEN long
             ELSE IF short <= Len(s) /\ s[short] \in SemDigits THEN short
             ELSE 0

RECURSIVE FindSemesters(_, _)
\* semester_pattern.findall(lower), each match normalised as on line 74
FindSemesters(s, i) ==
    IF i > Len(s) THEN <<>>
    ELSE LET e == MatchSemAt(s, i)
         IN  IF e = 0 THEN FindSemesters(s, i + 1)
             ELSE <<Replace(Replace(StripChars(SubSeq(s, i, e)), <<" ">>, <<>>),
                            <<"s","e","m","e","s","t","e","r">>, <<"s","e","m">>)>>
                  \o FindSemesters(s, e + 1)

\* self.focus_keywords, in insertion order (lines 36-42)
FocusKeywords ==
    << [label |-> "credits",
        keywords |-> {<<"c","r","e","d","i","t">>,
                      <<"e","c","t","s">>}],
       [label |-> "prerequisite",
        keywords |-> {<<"p","r","e","r","e","q","u","i","s","i","t","e">>,
                      <<"p","r","e","r","e","q">>,
                      <<"e","l","i","g","i","b","i","l","i","t","y">>}],
       [label |-> "grading",
        keywords |-> {<<"g","r","a","d","e">>,
                      <<"g","r","a","d","i","n","g">>,
                      <<"a","s","s","e","s","s","m","e","n","t">>,
                      <<"e","x","a","m">>}],
       [label |-> "career",
        keywords |-> {<<"c","a","r","e","e","r">>,
                      <<"j","o","b">>,
                      <<"r","o","l","e">>}],
       [label |-> "project",
        keywords |-> {<<"p","r","o","j","e","c","t">>,
                      <<"c","a","p","s","t","o","n","e">>}] >>

AnalyzeQuestion_LastWins(q) ==
    LET lower == Lower(q)
        hits == {k \in 1..Len(FocusKeywords) :
                    \E w \in FocusKeywords[k].keywords : Contains(lower, w)}
    IN  [semesters |-> FindSemesters(lower, 1),
         focus |-> IF hits = {} THEN "general"
                   ELSE FocusKeywords[CHOOSE k \in hits : \A j \in hits : k >= j].label]

\* _analyze_question (lines 72-80)
AnalyzeQuestion(q) ==
    LET lower == Lower(q)
        hits == {k \in 1..Len(FocusKeywords) :
                    \E w \in FocusKeywords[k].keywords : Contains(lower, w)}
    IN  [semesters |-> FindSemesters(lower, 1),
         focus |-> IF hits = {} THEN "general"
                   ELSE FocusKeywords[CHOOSE k \in hits : \A j \in hits : k <= j].label]

\* the trigger groups of _expand_query and the suffix each appends (lines 60-69)
Expansions ==
    { [triggers |-> {<<"c","r","e","d","i","t">>},
       suffix |-> " credit distribution per semester"],
      [triggers |-> {<<"p","r","e","r","e","q">>,
                    <<"p","r","e","r","e","q","u","i","s","i","t","e">>,
                    <<"e","l","i","g","i","b","i","l","i","t","y">>},
       suffix |-> " prerequisites and assumed knowledge"],
      [triggers |-> {<<"g","r","a","d","e">>,
                    <<"a","s","s","e","s","s","m","e","n","t">>,
                    <<"e","x","a","m">>},
       suffix |-> " grading system internal assessment and end-semester weightage"],
      [triggers |-> {<<"s","y","l","l","a","b","u","s">>,
                    <<"c","o","u","r","s","e">>,
                    <<"s","e","m","e","s","t","e","r">>},
       suffix |-> " MCA course structure subjects and modules"],
      [triggers |-> {<<"c","a","r","e","e","r">>,
                    <<"j","o","b">>,
                    <<"r","o","l","e">>},
       suffix |-> " career pathways aligned to syllabus topics"] }

ExpandQuery_CaseSensitive(text) ==
    LET q == StripChars(text)
    IN  {<<q, "">>}
        \cup {<<q, e.suffix>> : e \in {x \in Expansions :
                                        \E w \in x.triggers : Contains(q, w)}}

\* _expand_query (lines 52-70): the set of variants, each <<q, suffix>> for q + suffix
ExpandQuery(text) ==
    LET q == StripChars(text)
        lower == Lower(q)
    IN  {<<q, "">>}
        \cup {<<q, e.suffix>> : e \in {x \in Expansions :
                                        \E w \in x.triggers : Contains(lower, w)}}

\* the orders in which list(variants) may enumerate a set
Orders(S) ==
    {f \in [1..Cardinality(S) -> S] : \A i, j \in 1..Cardinality(S) : f[i] = f[j] => i = j}

NeutralScore == 10000   \* the 1.0 of line 99

\* what the index answers for one variant: mode "scored" (similarity_search_with_score
\* returns docs), "plain" (it raises, similarity_search returns docs) or "down" (both raise)
ChunkX == [score |-> 1000, content |-> <<"x">>, meta |-> [NoMeta EXCEPT !.source = NameA, !.page = 3]]
ChunkS1 == [score |-> 2000, content |-> <<"s","1">>, meta |-> [NoMeta EXCEPT !.source = NameB]]

ChunkS2 == [score |-> 3000, content |-> <<"s","2">>,
            meta |-> [NoMeta EXCEPT !.file_path = NameB, !.page_number = 12]]

\* replies of an index that holds chunks about single semesters
SemesterReplies ==
    {[mode |-> "scored", docs |-> d] :
        d \in {<<>>, <<ChunkS1>>, <<ChunkS1, ChunkS2>>, <<ChunkX, ChunkS2>>}}
    \cup {[mode |-> "plain", docs |-> <<ChunkS2>>],
          [mode |-> "down", docs |-> <<>>]}

\* questions that name semesters: two about credits, one about careers
SemesterQuestions ==
    { <<"c","r","e","d","i","t"," ","s","e","m","1"," ","s","e","m","2">>,
      <<"C","r","e","d","i","t","s"," ","S","e","m","e","s","t","e","r"," ","1">>,
      <<"j","o","b"," ","s","e","m","2">> }

IndexReplies ==
    {[mode |-> "scored", docs |-> d] : d \in {<<>>, <<ChunkX, ChunkS1>>}}
    \cup {[mode |-> "plain", docs |-> <<ChunkX, ChunkS1>>],
          [mode |-> "down", docs |-> <<>>]}

RECURSIVE RetrieveFrom_KeepScore(_, _, _, _)
RetrieveFrom_KeepScore(order, i, reply, acc) ==
    IF i > Len(order) THEN acc
    ELSE LET r == reply[order[i]]
         IN  IF r.mode = "down"
             THEN [acc EXCEPT !.scored_calls = Append(@, order[i]),
                              !.plain_calls = Append(@, order[i]),
                              !.failed = TRUE]
             ELSE RetrieveFrom_KeepScore(order, i + 1, reply,
                     [acc EXCEPT !.results = @ \o r.docs,
                                 !.scored_calls = Append(@, order[i]),
                                 !.plain_calls = IF r.mode = "plain" THEN Append(@, order[i])
                                                 ELSE @])

RECURSIVE RetrieveFrom(_, _, _, _)
\* the loop of lines 90-99 over the variants in `order`, from position i;
\* an exception of the scoreless search leaves the loop (line 100)
RetrieveFrom(order, i, reply, acc) ==
    IF i > Len(order) THEN acc
    ELSE LET r == reply[order[i]]
         IN  IF r.mode = "scored"
             THEN RetrieveFrom(order, i + 1, reply,
                     [acc EXCEPT !.results = @ \o r.docs,
                                 !.scored_calls = Append(@, order[i])])
             ELSE IF r.mode = "plain"
             THEN RetrieveFrom(order, i + 1, reply,
                     [acc EXCEPT !.results = @ \o [k \in 1..Len(r.docs) |->
                                                     [r.docs[k] EXCEPT !.score = NeutralScore]],
                                 !.scored_calls = Append(@, order[i]),
                                 !.plain_calls = Append(@, order[i])])
             ELSE [acc EXCEPT !.scored_calls = Append(@, order[i]),
                              !.plain_calls = Append(@, order[i]),
                              !.failed = TRUE]

\* _retrieve_with_sources (lines 82-102), with the calls it made on the index
RetrieveWithSources(order, reply) ==
    RetrieveFrom(order, 1, reply,
                 [results |-> <<>>, scored_calls |-> <<>>, plain_calls |-> <<>>,
                  failed |-> FALSE])

Questions ==
    { <<>>,
      <<" ">>,
      <<"h","i">>,
      <<"c","r","e","d","i","t"," ","s","e","m","1">>,
      <<"E","x","a","m"," ","S","e","m","e","s","t","e","r"," ","2">> }

RECURSIVE SplitAtoms(_, _)
\* t.split(sep) on a text of atoms
SplitAtoms(t, sep) ==
    IF ~HasAtom(t, sep) THEN <<t>>
    ELSE LET k == CHOOSE i \in 1..Len(t) : t[i] = sep /\ \A j \in 1..(i - 1) : t[j] # sep
         IN  <<SubSeq(t, 1, k - 1)>> \o SplitAtoms(SubSeq(t, k + 1, Len(t)), sep)

RECURSIVE StrippedNonEmpty(_)
\* [p.strip() for p in parts if p.strip()]
StrippedNonEmpty(parts) ==
    IF parts = <<>> THEN <<>>
    ELSE IF Strip(Head(parts)) = <<>> THEN StrippedNonEmpty(Tail(parts))
    ELSE <<Strip(Head(parts))>> \o StrippedNonEmpty(Tail(parts))

RECURSIVE Bulleted(_)
\* "\n".join(f"- {p}" for p in parts)
Bulleted(parts) ==
    IF parts = <<>> THEN <<>>
    ELSE <<"- ">> \o Head(parts) \o (IF Len(parts) > 1 THEN <<"NL">> ELSE <<>>)
         \o Bulleted(Tail(parts))

\* lines 240-243
PostFormat(answer) ==
    IF ~HasAtom(answer, "- ") /\ HasAtom(answer, ";")
    THEN LET parts == StrippedNonEmpty(SplitAtoms(answer, ";"))
         IN  IF Len(parts) >= 3 THEN parts[1] \o <<"NL">> \o Bulleted(Tail(parts))
             ELSE answer
    ELSE answer

GenerateFollowUp_SourcesFirst(an, sources) ==
    IF sources # <<>> THEN "Need more detail from any of the cited documents?"
    ELSE IF an.focus = "credits" THEN "Would you like a semester-by-semester credit comparison?"
    ELSE IF an.focus = "prerequisite" THEN "Should I list bridge courses to meet the prerequisites?"
    ELSE IF an.focus = "career" THEN "Do you want recommendations for internships aligned with these courses?"
    ELSE "Would you like to explore related MCA modules?"

\* _generate_follow_up (lines 174-183)
GenerateFollowUp(an, sources) ==
    IF an.focus = "credits" THEN "Would you like a semester-by-semester credit comparison?"
    ELSE IF an.focus = "prerequisite" THEN "Should I list bridge courses to meet the prerequisites?"
    ELSE IF an.focus = "career" THEN "Do you want recommendations for internships aligned with these courses?"
    ELSE IF sources # <<>> THEN "Need more detail from any of the cited documents?"
    ELSE "Would you like to explore related MCA modules?"

\* _confidence_explanation (lines 185-190), the confidence in 1/1200ths
ConfidenceExplanation(confidence, context_count, source_count) ==
    IF confidence > 900
    THEN [level |-> "High confidence", blocks |-> context_count, sources |-> source_count]
    ELSE IF confidence > 600
    THEN [level |-> "Moderate confidence", blocks |-> context_count, sources |-> source_count]
    ELSE [level |-> "Low confidence", blocks |-> context_count, sources |-> 0]

EmptyQuestionResult_LowConfidence ==
    [kind |-> "empty_question", keys |-> {"answer", "sources", "confidence"},
     answer |-> <<"PleaseProvide">>, sources |-> <<>>, confidence |-> FallbackConfidence,
     confidence_explanation |-> NoExplanation, follow_up |-> ""]

\* line 203
EmptyQuestionResult ==
    [kind |-> "empty_question", keys |-> {"answer", "sources", "confidence"},
     answer |-> <<"PleaseProvide">>, sources |-> <<>>, confidence |-> 0,
     confidence_explanation |-> NoExplanation, follow_up |-> ""]

InsufficientResult_NoFollowUp ==
    [kind |-> "insufficient", keys |-> AllKeys \ {"follow_up"},
     answer |-> <<"IDontKnow">>, sources |-> <<>>, confidence |-> FallbackConfidence,
     confidence_explanation |-> [level |-> "No relevant syllabus passages were retrieved.",
                                 blocks |-> 0, sources |-> 0],
     follow_up |-> ""]

\* lines 211-217
InsufficientResult ==
    [kind |-> "insufficient", keys |-> AllKeys,
     answer |-> <<"IDontKnow">>, sources |-> <<>>, confidence |-> FallbackConfidence,
     confidence_explanation |-> [level |-> "No relevant syllabus passages were retrieved.",
                                 blocks |-> 0, sources |-> 0],
     follow_up |-> "Upload a syllabus PDF for the semester you're interested in."]

\* lines 231-255: the package built from what generate_answer returned
AnswerPackage(gen_result, an, sources) ==
    LET answer == Strip(gen_result.answer)
        confidence == gen_result.confidence
    IN  [kind |-> "answered", keys |-> AllKeys,
         answer |-> PostFormat(answer),
         sources |-> sources,
         confidence |-> confidence,
         confidence_explanation |->
             ConfidenceExplanation(confidence, Len(sources),
                                   Cardinality({sources[i].name : i \in 1..Len(sources)})),
         follow_up |-> GenerateFollowUp(an, sources)]

\* ask_question(question) from its first line to the call of generate_answer
\* (lines 201-230); `order` and `reply` are the enumeration order of the
\* variants and the behaviour of the index
AskQuestion(t, question, order, reply, pause) ==
    /\ pc[t] = "idle"
    /\ calls < MaxAsks
    /\ calls' = calls + 1
    /\ clock' = clock + pause
    \* each intermediate value is computed once and bound
    /\ \E q \in {StripChars(question)} :
       \E an \in {AnalyzeQuestion(q)}, retr \in {RetrieveWithSources(order, reply)} :
       \E ctx \in {BuildContext(retr.results, an, max_context_chars)} :
       LET use == [scored_calls |-> Len(retr.scored_calls),
                   plain_calls |-> Len(retr.plain_calls), failed |-> retr.failed,
                   returned |-> Len(retr.results)]
           chunks == {retr.results[i].content : i \in 1..Len(retr.results)}
           cited == {ctx.parts[i + 1].content : i \in 1..Len(ctx.sources)}
           l == [InitLoc EXCEPT !.caller = "ask", !.question = question]
       IN  IF q = <<>>
           THEN /\ result' = [result EXCEPT ![t] = EmptyQuestionResult]
                /\ loc' = [loc EXCEPT ![t] = l]
                /\ pc' = [pc EXCEPT ![t] = "ask_return"]
           ELSE IF ctx.text_len = 0 \/ ctx.sources = <<>>
           THEN /\ result' = [result EXCEPT ![t] = InsufficientResult]
                /\ loc' = [loc EXCEPT ![t] = [l EXCEPT !.analysis = an, !.index_use = use,
                                                !.chunks = chunks,
                                                !.packed = Len(ctx.sources),
                                                !.cited = cited]]
                /\ pc' = [pc EXCEPT ![t] = "ask_return"]
           ELSE /\ result' = [result EXCEPT ![t] = NoResult]
                /\ loc' = [loc EXCEPT ![t] = [l EXCEPT !.analysis = an, !.index_use = use,
                                                !.chunks = chunks,
                                                !.packed = Len(ctx.sources),
                                                !.cited = cited,
                                                !.sources = ctx.sources,
                                                !.context_blank = FALSE,
                                                !.acquires = 1]]
                /\ pc' = [pc EXCEPT ![t] = "acq_now"]
    /\ UNCHANGED <<max_per_minute, call_timestamps, recorded, invoked>>
    /\ UNCHANGED genFrame

\* generate_answer returned to ask_question (lines 231-255)
AskFinish(t) ==
    /\ pc[t] = "gen_return"
    /\ loc[t].caller = "ask"
    /\ result' = [result EXCEPT ![t] =
                     IF result[t].kind = "raised" THEN result[t]
                     ELSE AnswerPackage(result[t], loc[t].analysis, loc[t].sources)]
    /\ pc' = [pc EXCEPT ![t] = "ask_return"]
    /\ UNCHANGED <<max_per_minute, call_timestamps, clock, loc, recorded, invoked, calls>>
    /\ UNCHANGED genFrame

\* the caller of ask_question receives the package
AskReturn(t) ==
    /\ pc[t] = "ask_return"
    /\ pc' = [pc EXCEPT ![t] = "idle"]
    /\ loc' = [loc EXCEPT ![t] = InitLoc]
    /\ result' = [result EXCEPT ![t] = NoResult]
    /\ UNCHANGED <<max_per_minute, call_timestamps, clock, recorded, invoked, calls>>
    /\ UNCHANGED genFrame

(***************************************************************************)
(* routers/chat.py: SESSIONS, _prune_sessions and the endpoints            *)
(***************************************************************************)
SESSION_TTL_SECONDS == 86400
EpochStart == 1700000000   \* time.time() when the process starts, seconds
MaxRequests == 4           \* requests per behaviour
SessionIds == {"s1", "s2"}
NoSession == ""            \* request.session_id missing or empty
SessPauses == {0, 86400, 86401}   \* time between two requests, seconds

\* `asked` is the session_id the request carried, `session_id` the one answered
NoResponse ==
    [op |-> "", status |-> 0, asked |-> "", session_id |-> "", messages |-> <<>>,
     listing |-> {}]

SessIdle ==
    /\ sessions = << >>
    /\ wall = EpochStart
    /\ response = NoResponse
    /\ created = << >>
    /\ pruned = {}
    /\ known = {}
    /\ requests = 0

\* max((m.get("ts", 0.0) for m in msgs), default=d)
LastTs(msgs, d) ==
    IF msgs = <<>> THEN d
    ELSE CHOOSE x \in {msgs[i].ts : i \in 1..Len(msgs)} :
            \A i \in 1..Len(msgs) : msgs[i].ts <= x

Expired_Inclusive(msgs, now) == now - LastTs(msgs, 0) >= SESSION_TTL_SECONDS

\* the test of line 32, with last_ts as line 31 computes it
Expired(msgs, now) == now - LastTs(msgs, 0) > SESSION_TTL_SECONDS


\* _prune_sessions (lines 27-38): the session ids it deletes at time now
PruneSet(sess, now) == {sid \in DOMAIN sess : Expired(sess[sid], now)}

Restrict(f, S) == [x \in S |-> f[x]]

\* SESSIONS after _prune_sessions
Pruned(sess, now) == Restrict(sess, DOMAIN sess \ PruneSet(sess, now))

\* the time a session was last active: its latest message, or its insertion if it has none
LastActivity(sess, sid) == LastTs(sess[sid], created[sid])

\* the record of a prune: each removed id with the time it had been inactive
PruneLog(sess, now) ==
    {[sid |-> sid, idle |-> now - LastActivity(sess, sid), empty |-> sess[sid] = <<>>]
        : sid \in PruneSet(sess, now)}

\* requests of POST /chat/ask: AskRequest.question (min_length=1) with what
\* _rag.ask_question returns for it, or with its raising
AskCases ==
    { [question |-> <<" ">>, res |-> EmptyQuestionResult],
      [question |-> <<"h","i">>, res |-> InsufficientResult],
      [question |-> <<"h","i">>,
       res |-> AnswerPackage(SuccessResult(<<"Answer", "NL">>, FALSE),
                             [semesters |-> <<>>, focus |-> "general"],
                             <<SourceRef(1, ChunkX)>>)],
      [question |-> <<"h","i">>, res |-> [NoResult EXCEPT !.kind = "raised"]] }

\* the message ask appends (lines 85-103)
Message(now, question, res) ==
    [ts |-> now,
     question |-> question,
     answer |-> res.answer,
     sources |-> res.sources,
     confidence |-> res.confidence,
     confidence_explanation |-> res.confidence_explanation,
     follow_up_question |-> IF "follow_up" \in res.keys THEN res.follow_up ELSE "None"]

\* POST /chat/ask (lines 72-112); `sid` is request.session_id, `res` what
\* _rag.ask_question returns or raises
Ask(sid, question, res, pause) ==
    /\ requests < MaxRequests
    /\ \E fresh \in (IF sid = NoSession THEN SessionIds \ known ELSE {sid}) :
        LET now == wall + pause
            kept == Pruned(sessions, now)
            session_id == fresh
            inserted == session_id \notin DOMAIN kept
            sess1 == IF inserted THEN kept @@ (session_id :> <<>>) ELSE kept
            created1 == IF inserted THEN Restrict(created, DOMAIN kept) @@ (session_id :> now)
                        ELSE Restrict(created, DOMAIN kept)
        IN  /\ wall' = now
            /\ pruned' = PruneLog(sessions, now)
            /\ known' = known \cup {session_id}
            /\ created' = created1
            /\ IF res.kind = "raised"
               THEN /\ sessions' = sess1
                    /\ response' = [NoResponse EXCEPT !.op = "ask", !.status = 500,
                                                      !.asked = sid]
               ELSE /\ sessions' = [sess1 EXCEPT ![session_id] =
                                       Append(@, Message(now, question, res))]
                    /\ response' = [NoResponse EXCEPT !.op = "ask", !.status = 200,
                                                      !.asked = sid,
                                                      !.session_id = session_id]
    /\ requests' = requests + 1
    /\ UNCHANGED sessFrame

History_Creating(sid, pause) ==
    /\ requests < MaxRequests
    /\ LET now == wall + pause
           kept == Pruned(sessions, now)
           sess1 == IF sid \in DOMAIN kept THEN kept ELSE kept @@ (sid :> <<>>)
       IN  /\ wall' = now
           /\ pruned' = PruneLog(sessions, now)
           /\ sessions' = sess1
           /\ created' = IF sid \in DOMAIN kept THEN Restrict(created, DOMAIN kept)
                         ELSE Restrict(created, DOMAIN kept) @@ (sid :> now)
           /\ response' = [NoResponse EXCEPT !.op = "history",
                                             !.status = IF sid \in DOMAIN kept THEN 200 ELSE 404,
                                             !.asked = sid, !.session_id = sid,
                                             !.messages = sess1[sid]]
    /\ known' = known \cup {sid}
    /\ requests' = requests + 1
    /\ UNCHANGED sessFrame

\* GET /chat/history (lines 115-121)
History(sid, pause) ==
    /\ requests < MaxRequests
    /\ LET now == wall + pause
           kept == Pruned(sessions, now)
       IN  /\ wall' = now
           /\ pruned' = PruneLog(sessions, now)
           /\ sessions' = kept
           /\ created' = Restrict(created, DOMAIN kept)
           /\ response' = IF sid \notin DOMAIN kept
                          THEN [NoResponse EXCEPT !.op = "history", !.status = 404, !.asked = sid,
                                                  !.session_id = sid]
                          ELSE [NoResponse EXCEPT !.op = "history", !.status = 200, !.asked = sid,
                                                  !.session_id = sid,
                                                  !.messages = kept[sid]]
    /\ known' = known \cup {sid}
    /\ requests' = requests + 1
    /\ UNCHANGED sessFrame

\* POST /chat/sessions (lines 124-129)
CreateSession(pause) ==
    /\ requests < MaxRequests
    /\ \E session_id \in SessionIds \ known :
        LET now == wall + pause
            kept == Pruned(sessions, now)
        IN  /\ wall' = now
            /\ pruned' = PruneLog(sessions, now)
            /\ sessions' = kept @@ (session_id :> <<>>)
            /\ created' = Restrict(created, DOMAIN kept) @@ (session_id :> now)
            /\ known' = known \cup {session_id}
            /\ response' = [NoResponse EXCEPT !.op = "create_session", !.status = 200,
                                              !.session_id = session_id]
    /\ requests' = requests + 1
    /\ UNCHANGED sessFrame

\* GET /chat/sessions (lines 132-140); the listing is taken as a set
ListSessions(pause) ==
    /\ requests < MaxRequests
    /\ LET now == wall + pause
           kept == Pruned(sessions, now)
       IN  /\ wall' = now
           /\ pruned' = PruneLog(sessions, now)
           /\ sessions' = kept
           /\ created' = Restrict(created, DOMAIN kept)
           /\ response' = [NoResponse EXCEPT
                              !.op = "list_sessions", !.status = 200,
                              !.listing = {[session_id |-> sid,
                                            message_count |-> Len(kept[sid]),
                                            updated_at |-> LastTs(kept[sid], now)]
                                              : sid \in DOMAIN kept}]
    /\ requests' = requests + 1
    /\ UNCHANGED <<known>>
    /\ UNCHANGED sessFrame

\* DELETE /chat/sessions/{session_id} (lines 143-153)
DeleteSession(sid, pause) ==
    /\ requests < MaxRequests
    /\ LET now == wall + pause
           kept == Pruned(sessions, now)
       IN  /\ wall' = now
           /\ pruned' = PruneLog(sessions, now)
           /\ IF sid \notin DOMAIN kept
              THEN /\ sessions' = kept
                   /\ response' = [NoResponse EXCEPT !.op = "delete_session", !.status = 404, !.asked = sid,
                                                     !.session_id = sid]
              ELSE /\ sessions' = Restrict(kept, DOMAIN kept \ {sid})
                   /\ response' = [NoResponse EXCEPT !.op = "delete_session", !.status = 200, !.asked = sid,
                                                     !.session_id = sid]
           /\ created' = Restrict(created, DOMAIN kept \ {sid})
    /\ known' = known \cup {sid}
    /\ requests' = requests + 1
    /\ UNCHANGED sessFrame

(***************************************************************************)
(* The text functions applied on their own: _analyze_question,             *)
(* _expand_query, _estimate_confidence, _retrieve_with_sources             *)
(***************************************************************************)
MaxWords == 2     \* words per question

Words ==
    { <<>>,
      <<"h","i">>,
      <<"c","r","e","d","i","t">>,
      <<"E","x","a","m">>,
      <<"j","o","b">>,
      <<"p","r","e","r","e","q">>,
      <<"p","r","o","j","e","c","t">>,
      <<"R","O","L","E">>,
      <<"s","e","m","e","s","t","e","r"," ","2">> }

RECURSIVE JoinWords(_)
\* " ".join(words)
JoinWords(ws) ==
    IF ws = <<>> THEN <<>>
    ELSE IF Len(ws) = 1 THEN ws[1]
    ELSE ws[1] \o <<" ">> \o JoinWords(Tail(ws))

TextQuestions == {JoinWords(ws) : ws \in UNION {[1..n -> Words] : n \in 0..MaxWords}}

\* answers around the thresholds of _estimate_confidence: 0, 1, 240, 241, 540,
\* 541 and 700 characters
EstimateTexts ==
    { <<>>, <<" ">>, <<"T240">>, <<"T240", ";">>, <<"T240", "T300">>,
      <<"T240", "T300", ";">>, <<"Essay">> }

NoAnalysis == [semesters |-> <<>>, focus |-> ""]
NoVariants == <<>>
NoEstimate == [called |-> FALSE]
NoRetrieval == [called |-> FALSE]

TextIdle ==
    /\ question_text = <<>>
    /\ analysed = NoAnalysis
    /\ variants = NoVariants
    /\ estimate = NoEstimate
    /\ retrieval = NoRetrieval

(***************************************************************************)
(* services/pdf_processor.py: PDFProcessor                                 *)
(***************************************************************************)
MaxUploads == 2          \* process_pdf calls in one behaviour
DefaultMaxFileMb == 50   \* max_file_mb: int = 50
TestFileSize == 11       \* the file test_pdf_size_validation writes: b"%" + b"0" * 10
NoEnv == -1              \* UPLOAD_FILE_SIZE_LIMIT unset, or not an integer

\* __init__: the limit in bytes from the parameter and the environment
MaxFileBytes(max_file_mb, env_limit) ==
    LET mb == IF env_limit # NoEnv /\ env_limit # 0 /\ env_limit > 0
              THEN env_limit ELSE max_file_mb
    IN  mb * 1024 * 1024

MaxFileMbs == {0, 1, DefaultMaxFileMb}
EnvLimits == {NoEnv, 0, 1}
Limits == {MaxFileBytes(mb, env) : mb \in MaxFileMbs, env \in EnvLimits}

PdfSuffix == <<".", "p", "d", "f">>
Suffixes == {PdfSuffix, <<".", "P", "D", "F">>, <<".", "t", "x", "t">>, <<>>}
FileSizes == {0, TestFileSize, 1024 * 1024, 1024 * 1024 + 1}
Corrupt == -1            \* PyPDFLoader cannot read the content
PageCounts == {Corrupt, 0, 1, 2}

\* what is at a path: nothing, a directory, or a regular file of some size
\* whose content the loader reads as a number of pages, or cannot read
MissingPaths ==
    {[exists |-> FALSE, is_file |-> FALSE, suffix |-> x, size |-> 0, pages |-> Corrupt] :
        x \in Suffixes}
Directories ==
    {[exists |-> TRUE, is_file |-> FALSE, suffix |-> x, size |-> 0, pages |-> Corrupt] :
        x \in Suffixes}
RegularFiles ==
    {[exists |-> TRUE, is_file |-> TRUE, suffix |-> x, size |-> n, pages |-> p] :
        x \in Suffixes, n \in FileSizes, p \in PageCounts}
Paths == MissingPaths \cup Directories \cup RegularFiles

NoError == ""
\* as _validate_pdf_file, which accepts every extension
ValidatePdfFile_AnySuffix(file, limit) ==
    IF ~file.exists \/ ~file.is_file THEN "FileNotFoundError"
    ELSE IF file.size > limit THEN "ValueError"
    ELSE NoError

\* _validate_pdf_file: the exception it raises, NoError when it returns
ValidatePdfFile(file, limit) ==
    IF ~file.exists \/ ~file.is_file THEN "FileNotFoundError"
    ELSE IF Lower(file.suffix) # PdfSuffix THEN "ValueError"
    ELSE IF file.size > limit THEN "ValueError"
    ELSE NoError

\* text_splitter.split_documents(pages): one chunk for each page of the
\* short pages modelled
SplitDocuments(file) == [i \in 1..file.pages |-> [page |-> i]]

EmptyStore == [docs |-> <<>>, persisted |-> 0]
NoCount == -1            \* process_pdf raised, it returned nothing
NoProcessed ==
    [called |-> FALSE, file |-> CHOOSE f \in MissingPaths : f.suffix = <<>>,
     raised |-> NoError, returned |-> NoCount, loaded |-> FALSE, before |-> EmptyStore]
StoreOutcomes == {"ok", "add_fails", "persist_fails"}

PdfIdle ==
    /\ max_file_bytes = MaxFileBytes(DefaultMaxFileMb, NoEnv)
    /\ vectorstore = EmptyStore
    /\ processed = NoProcessed
    /\ uploads = 0

PdfInit ==
    /\ max_file_bytes \in Limits
    /\ vectorstore = EmptyStore
    /\ processed = NoProcessed
    /\ uploads = 0

\* process_pdf(file_path); store tells whether Chroma accepts the documents
ProcessPdf(file, store) ==
    /\ uploads < MaxUploads
    /\ uploads' = uploads + 1
    /\ \E err \in {ValidatePdfFile(file, max_file_bytes)} :
       LET call == [NoProcessed EXCEPT !.called = TRUE, !.file = file,
                                       !.before = vectorstore]
           chunks == SplitDocuments(file)
           added == [vectorstore EXCEPT !.docs = vectorstore.docs \o chunks]
       IN  IF err # NoError
           THEN /\ processed' = [call EXCEPT !.raised = err]
                /\ UNCHANGED vectorstore
           ELSE IF file.pages = Corrupt
           THEN /\ processed' = [call EXCEPT !.loaded = TRUE, !.raised = "ValueError"]
                /\ UNCHANGED vectorstore
           ELSE IF chunks = <<>>
           THEN /\ processed' = [call EXCEPT !.loaded = TRUE, !.returned = 0]
                /\ UNCHANGED vectorstore
           ELSE IF store = "add_fails"
           THEN /\ processed' = [call EXCEPT !.loaded = TRUE, !.raised = "Exception"]
                /\ UNCHANGED vectorstore
           ELSE IF store = "persist_fails"
           THEN /\ processed' = [call EXCEPT !.loaded = TRUE, !.raised = "Exception"]
                /\ vectorstore' = added
           ELSE /\ processed' = [call EXCEPT !.loaded = TRUE, !.returned = Len(chunks)]
                /\ vectorstore' = [added EXCEPT !.persisted = Len(added.docs)]
    /\ UNCHANGED <<max_file_bytes, pdfFrame>>

(***************************************************************************)
(* routers/chat.py: the endpoints as the thread pool runs them.  The       *)
(* endpoints are plain `def` functions, so each request runs in a worker   *)
(* thread; the threads share SESSIONS and nothing orders their accesses.   *)
(* A step is one access to SESSIONS with the local work around it.         *)
(***************************************************************************)
Workers == {1, 2}
MaxConcRequests == 2     \* requests per behaviour of the concurrent endpoints
ConcPauses == {0, 86401}    \* time between the arrivals of two requests, seconds
Operations == {"ask", "history", "create_session", "list_sessions", "delete_session"}

\* what _rag.ask_question does for the request of a worker
ConcAskCases == {c \in AskCases : c.question = <<"h","i">> /\ c.res.kind # "insufficient"}

IdleWorker ==
    [pc |-> "idle", op |-> "", asked |-> NoSession, session_id |-> NoSession,
     case |-> CHOOSE c \in ConcAskCases : c.res.kind = "raised",
     now |-> 0, size |-> 0, to_delete |-> {}, status |-> 0, error |-> NoError]

WorkIdle == worker = [w \in Workers |-> IdleWorker]

\* a session left by an earlier ask, its one message written at the start
StoredMessage ==
    Message(EpochStart, <<"h","i">>,
            (CHOOSE c \in ConcAskCases : c.res.kind # "raised").res)

\* the request of worker w ends: its response is sent, the thread is free
Finish(w, status, error, resp) ==
    /\ worker' = [worker EXCEPT ![w].pc = "idle", ![w].status = status, ![w].error = error]
    /\ response' = [resp EXCEPT !.op = worker[w].op, !.status = status,
                                !.asked = worker[w].asked]

\* a request arrives and a worker enters _prune_sessions: lines 28-30 up to
\* the creation of the iterator of SESSIONS.items(), which notes the size of
\* the dict.  A request without session_id is given its uuid4 here.
RequestBegin(w, op, sid, case, pause) ==
    /\ worker[w].pc = "idle"
    /\ requests < MaxConcRequests
    \* a request in flight lasts far less than a day
    /\ pause # 0 => \A v \in Workers : worker[v].pc = "idle"
    /\ op \in {"create_session", "list_sessions"} => sid = NoSession
    /\ op \in {"history", "delete_session"} => sid # NoSession
    /\ \E session_id \in (IF sid # NoSession THEN {sid}
                          ELSE IF op \in {"ask", "create_session"} THEN SessionIds \ known
                          ELSE {NoSession}) :
          /\ worker' = [worker EXCEPT ![w] =
                           [IdleWorker EXCEPT !.pc = "prune_scan", !.op = op, !.asked = sid,
                                              !.session_id = session_id, !.case = case,
                                              !.now = wall + pause,
                                              !.size = Cardinality(DOMAIN sessions)]]
          /\ known' = known \cup ({session_id} \ {NoSession})
    /\ wall' = wall + pause
    /\ requests' = requests + 1
    /\ UNCHANGED <<sessions, response, created, pruned>>
    /\ UNCHANGED workFrame

\* the loop of lines 30-33: the iterator raises RuntimeError (dictionary
\* changed size during iteration) when the size is no longer the one noted
PruneScan(w) ==
    /\ worker[w].pc = "prune_scan"
    /\ IF Cardinality(DOMAIN sessions) # worker[w].size
       THEN Finish(w, 500, "RuntimeError", NoResponse)
       ELSE /\ worker' = [worker EXCEPT ![w].pc = "prune_delete",
                                        ![w].to_delete = PruneSet(sessions, worker[w].now)]
            /\ UNCHANGED response
    /\ UNCHANGED <<sessions, wall, created, pruned, known, requests>>
    /\ UNCHANGED workFrame

\* the loop of lines 34-38, where a failing del is ignored; the endpoint
\* continues after _prune_sessions
PruneDelete(w) ==
    /\ worker[w].pc = "prune_delete"
    /\ LET keep == DOMAIN sessions \ worker[w].to_delete
       IN  /\ sessions' = Restrict(sessions, keep)
           /\ created' = Restrict(created, keep)
    /\ worker' = [worker EXCEPT ![w].pc = worker[w].op, ![w].to_delete = {}]
    /\ UNCHANGED <<wall, response, pruned, known, requests>>
    /\ UNCHANGED workFrame

\* ask, lines 75-77: the session is inserted when it is not there
AskInsert(w) ==
    /\ worker[w].pc = "ask"
    /\ LET session_id == worker[w].session_id
       IN  IF session_id \notin DOMAIN sessions
           THEN /\ sessions' = sessions @@ (session_id :> <<>>)
                /\ created' = created @@ (session_id :> wall)
           ELSE UNCHANGED <<sessions, created>>
    /\ worker' = [worker EXCEPT ![w].pc = "ask_question"]
    /\ UNCHANGED <<wall, response, pruned, known, requests>>
    /\ UNCHANGED workFrame

\* ask, lines 79-91: _rag.ask_question returns, or raises and the request
\* is answered with 500
AskQuestionReturns(w) ==
    /\ worker[w].pc = "ask_question"
    /\ IF worker[w].case.res.kind = "raised"
       THEN Finish(w, 500, NoError, NoResponse)
       ELSE /\ worker' = [worker EXCEPT ![w].pc = "ask_append"]
            /\ UNCHANGED response
    /\ UNCHANGED <<sessions, wall, created, pruned, known, requests>>
    /\ UNCHANGED workFrame

\* ask, lines 93-112: SESSIONS[session_id] raises KeyError when the session
\* is no longer there, and nothing catches it
AskAppend(w) ==
    /\ worker[w].pc = "ask_append"
    /\ LET session_id == worker[w].session_id
       IN  IF session_id \notin DOMAIN sessions
           THEN /\ Finish(w, 500, "KeyError", NoResponse)
                /\ UNCHANGED sessions
           ELSE /\ sessions' = [sessions EXCEPT ![session_id] =
                                   Append(@, Message(wall, worker[w].case.question,
                                                     worker[w].case.res))]
                /\ Finish(w, 200, NoError, [NoResponse EXCEPT !.session_id = session_id])
    /\ UNCHANGED <<wall, created, pruned, known, requests>>
    /\ UNCHANGED workFrame

\* history, lines 118-121
HistoryGet(w) ==
    /\ worker[w].pc = "history"
    /\ LET session_id == worker[w].session_id
       IN  IF session_id \notin DOMAIN sessions
           THEN Finish(w, 404, NoError, [NoResponse EXCEPT !.session_id = session_id])
           ELSE Finish(w, 200, NoError, [NoResponse EXCEPT !.session_id = session_id,
                                                           !.messages = sessions[session_id]])
    /\ UNCHANGED <<sessions, wall, created, pruned, known, requests>>
    /\ UNCHANGED workFrame

\* create_session, lines 126-129
CreateInsert(w) ==
    /\ worker[w].pc = "create_session"
    /\ LET session_id == worker[w].session_id
       IN  /\ sessions' = [sid \in DOMAIN sessions \cup {session_id} |->
                              IF sid = session_id THEN <<>> ELSE sessions[sid]]
           /\ created' = [sid \in DOMAIN sessions \cup {session_id} |->
                              IF sid = session_id THEN wall ELSE created[sid]]
           /\ Finish(w, 200, NoError, [NoResponse EXCEPT !.session_id = session_id])
    /\ UNCHANGED <<wall, pruned, known, requests>>
    /\ UNCHANGED workFrame

\* list_sessions, lines 134-136 up to the creation of the iterator
ListBegin(w) ==
    /\ worker[w].pc = "list_sessions"
    /\ worker' = [worker EXCEPT ![w].pc = "list_loop", ![w].now = wall,
                                ![w].size = Cardinality(DOMAIN sessions)]
    /\ UNCHANGED <<sessions, wall, response, created, pruned, known, requests>>
    /\ UNCHANGED workFrame

\* list_sessions, the loop of lines 136-139
ListLoop(w) ==
    /\ worker[w].pc = "list_loop"
    /\ IF Cardinality(DOMAIN sessions) # worker[w].size
       THEN Finish(w, 500, "RuntimeError", NoResponse)
       ELSE Finish(w, 200, NoError,
                   [NoResponse EXCEPT
                       !.listing = {[session_id |-> sid,
                                     message_count |-> Len(sessions[sid]),
                                     updated_at |-> LastTs(sessions[sid], worker[w].now)]
                                       : sid \in DOMAIN sessions}])
    /\ UNCHANGED <<sessions, wall, created, pruned, known, requests>>
    /\ UNCHANGED workFrame

\* delete_session, lines 146-147
DeleteCheck(w) ==
    /\ worker[w].pc = "delete_session"
    /\ IF worker[w].session_id \notin DOMAIN sessions
       THEN Finish(w, 404, NoError, [NoResponse EXCEPT !.session_id = worker[w].session_id])
       ELSE /\ worker' = [worker EXCEPT ![w].pc = "delete_del"]
            /\ UNCHANGED response
    /\ UNCHANGED <<sessions, wall, created, pruned, known, requests>>
    /\ UNCHANGED workFrame

\* delete_session, lines 148-153: a del that raises KeyError is answered with 500
DeleteDel(w) ==
    /\ worker[w].pc = "delete_del"
    /\ LET session_id == worker[w].session_id
           keep == DOMAIN sessions \ {session_id}
       IN  IF session_id \notin DOMAIN sessions
           THEN /\ Finish(w, 500, "KeyError", [NoResponse EXCEPT !.session_id = session_id])
                /\ UNCHANGED <<sessions, created>>
           ELSE /\ sessions' = Restrict(sessions, keep)
                /\ created' = Restrict(created, keep)
                /\ Finish(w, 200, NoError, [NoResponse EXCEPT !.session_id = session_id])
    /\ UNCHANGED <<wall, pruned, known, requests>>
    /\ UNCHANGED workFrame

(***************************************************************************)
(* services/mca_analysis.py: calculate_credits over data/mca_catalog.py    *)
(***************************************************************************)
MaxSemesters == 3        \* length of the list of a request

Sem(digit) == <<"s", "e", "m", digit>>

\* MCA_COURSES: semester -> the credits of its courses
MCA_COURSES ==
    [name \in {Sem("1"), Sem("2"), Sem("3"), Sem("4")} |->
        IF name = Sem("4") THEN <<4, 3, 4>> ELSE <<4, 4, 3>>]

RECURSIVE SumSeq(_)
\* sum(...) over a list of numbers
SumSeq(xs) == IF xs = <<>> THEN 0 ELSE Head(xs) + SumSeq(Tail(xs))

\* names a request may carry: catalogued, in other letter case, unknown
SemesterNames == {Sem("1"), <<"S", "E", "M", "1">>, <<"S", "e", "m", "4">>, Sem("9")}

RECURSIVE SeqsUpTo(_, _)
\* the lists over S of length n or less
SeqsUpTo(S, n) ==
    IF n = 0 THEN {<<>>}
    ELSE SeqsUpTo(S, n - 1) \cup {Append(xs, x) : xs \in {ys \in SeqsUpTo(S, n - 1) : Len(ys) = n - 1}, x \in S}

\* dict assignment d[k] = v
DictPut(dict, k, v) == [x \in DOMAIN dict \cup {k} |-> IF x = k THEN v ELSE dict[x]]

RECURSIVE CreditsLoop(_, _, _)
\* the loop of lines 39-44 over the names left, from (total, breakdown)
CreditsLoop(names, total, breakdown) ==
    IF names = <<>> THEN [total_credits |-> total, breakdown |-> breakdown]
    ELSE LET sem_lc == Lower(Head(names))
             courses == IF sem_lc \in DOMAIN MCA_COURSES THEN MCA_COURSES[sem_lc] ELSE <<>>
             course_credits == SumSeq(courses)
         IN  CreditsLoop(Tail(names), total + course_credits,
                         DictPut(breakdown, sem_lc, course_credits))

\* calculate_credits(semesters), lines 36-45
CalculateCredits(names) == CreditsLoop(names, 0, << >>)

NoCredits == [called |-> FALSE, total_credits |-> 0, breakdown |-> << >>]

CreditIdle ==
    /\ semesters = <<>>
    /\ credits = NoCredits

CreditInit ==
    /\ semesters \in SeqsUpTo(SemesterNames, MaxSemesters)
    /\ credits = NoCredits

\* POST /analysis/credits: the router returns what calculate_credits returns
CreditsCall ==
    /\ ~credits.called
    /\ credits' = [called |-> TRUE,
                   total_credits |-> CalculateCredits(semesters).total_credits,
                   breakdown |-> CalculateCredits(semesters).breakdown]
    /\ UNCHANGED <<semesters, creditFrame>>

\* the next request arrives
CreditsFresh ==
    /\ credits.called
    /\ semesters' \in SeqsUpTo(SemesterNames, MaxSemesters)
    /\ credits' = NoCredits
    /\ UNCHANGED creditFrame

(***************************************************************************)
(* routers/documents.py: upload_pdf, its background task _process, and     *)
(* delete_document.  _process and delete_document are plain functions, run *)
(* in worker threads; a step is one access to STATUSES, the file or the    *)
(* vector store.                                                           *)
(***************************************************************************)
DocIds == {"d1", "d2"}

\* the files a client uploads under a .pdf name: readable with pages, or not
\* readable as a PDF; streamed whole, so within the size limit
UploadedFiles ==
    {f \in RegularFiles : f.suffix = PdfSuffix /\ f.size = TestFileSize /\ f.pages # 0}

NoFile == CHOOSE f \in MissingPaths : f.suffix = PdfSuffix

\* status "" stands for a doc_id that is not in STATUSES; `task` is the
\* position of _process, `remover` that of a delete_document request; the
\* flags record what happened after the status was set to "deleted"
NoDoc ==
    [status |-> "", chunks |-> 0, detail |-> NoError, file |-> NoFile, indexed |-> 0,
     task |-> "none", count |-> 0, remover |-> "none",
     was_deleted |-> FALSE, changed_after |-> FALSE, indexed_after |-> FALSE]

DocIdle == docs = [d \in DocIds |-> NoDoc]

\* STATUSES[doc_id]["status"] = status, with the record of a change made
\* after a deletion
SetStatus(doc, status) ==
    [doc EXCEPT !.status = status,
                !.changed_after = @ \/ (doc.was_deleted /\ status # "deleted")]

\* upload_pdf (lines 45-118) for a file that arrives whole: the entry is
\* made, the file written, the status set to "uploaded" and _process queued
UploadPdf(d, file) ==
    /\ docs[d].status = ""
    /\ docs' = [docs EXCEPT ![d] = [NoDoc EXCEPT !.status = "uploaded", !.file = file,
                                                 !.task = "pending"]]
    /\ UNCHANGED docFrame

\* _process, line 103
ProcessBegin(d) ==
    /\ docs[d].task = "pending"
    /\ docs' = [docs EXCEPT ![d] = [SetStatus(docs[d], "processing") EXCEPT
                                       !.task = "validate"]]
    /\ UNCHANGED docFrame

\* process_pdf, lines 73-82: the validation and the load of the file as it
\* is now; an exception is kept for the handler of line 107
ProcessLoad(d) ==
    /\ docs[d].task = "validate"
    /\ \E err \in {ValidatePdfFile(docs[d].file, max_file_bytes)} :
          docs' = [docs EXCEPT ![d] =
                      IF err # NoError
                      THEN [docs[d] EXCEPT !.task = "raised", !.detail = err]
                      ELSE IF docs[d].file.pages = Corrupt
                      THEN [docs[d] EXCEPT !.task = "raised", !.detail = "ValueError"]
                      ELSE [docs[d] EXCEPT !.task = "loaded",
                                           !.count = Len(SplitDocuments(docs[d].file))]]
    /\ UNCHANGED docFrame

\* process_pdf, lines 85-95: the chunks are added to the store and persisted
ProcessIndex(d) ==
    /\ docs[d].task = "loaded"
    /\ docs' = [docs EXCEPT ![d] =
                   [docs[d] EXCEPT !.task = "indexed",
                                   !.indexed = @ + docs[d].count,
                                   !.indexed_after = @ \/ docs[d].was_deleted]]
    /\ UNCHANGED docFrame

\* _process, lines 105-106
ProcessComplete(d) ==
    /\ docs[d].task = "indexed"
    /\ docs' = [docs EXCEPT ![d] = [SetStatus(docs[d], "completed") EXCEPT
                                       !.chunks = docs[d].count, !.task = "done"]]
    /\ UNCHANGED docFrame

\* _process, lines 107-110
ProcessFail(d) ==
    /\ docs[d].task = "raised"
    /\ docs' = [docs EXCEPT ![d] = [SetStatus(docs[d], "failed") EXCEPT !.task = "done"]]
    /\ UNCHANGED docFrame

\* delete_document, lines 150-161: the entry is found and the vectors of the
\* source are deleted, when the store supports the filter
DeleteVectors(d, supported) ==
    /\ docs[d].status # ""
    /\ docs[d].remover = "none"
    /\ docs' = [docs EXCEPT ![d].remover = "unlink",
                            ![d].indexed = IF supported THEN 0 ELSE @]
    /\ UNCHANGED docFrame

\* delete_document, lines 163-166: the file is removed, the status set
DeleteUnlink(d) ==
    /\ docs[d].remover = "unlink"
    /\ docs' = [docs EXCEPT ![d] = [SetStatus(docs[d], "deleted") EXCEPT
                                       !.file = NoFile, !.remover = "none",
                                       !.was_deleted = TRUE]]
    /\ UNCHANGED docFrame

RestIdle == TextIdle /\ PdfIdle /\ WorkIdle /\ CreditIdle /\ DocIdle

TextInit ==
    /\ question_text \in TextQuestions
    /\ analysed = NoAnalysis
    /\ variants = NoVariants
    /\ estimate = NoEstimate
    /\ retrieval = NoRetrieval

\* no function has been applied yet
TextFresh ==
    /\ analysed = NoAnalysis /\ variants = NoVariants
    /\ estimate = NoEstimate /\ retrieval = NoRetrieval

\* the string q + suffix of a variant
VariantText(v) == v[1] \o (IF v[2] = "" THEN <<>> ELSE <<v[2]>>)

\* self._analyze_question(question_text)
AnalyzeCall ==
    /\ TextFresh
    /\ analysed' = AnalyzeQuestion(question_text)
    /\ UNCHANGED <<question_text, variants, estimate, retrieval>>
    /\ UNCHANGED textFrame

\* self._expand_query(question); list(variants) enumerates the set in `order`
ExpandCall(order) ==
    /\ TextFresh
    /\ variants' = [i \in 1..Len(order) |-> VariantText(order[i])]
    /\ UNCHANGED <<question_text, analysed, estimate, retrieval>>
    /\ UNCHANGED textFrame

\* self._estimate_confidence(answer_text, context_text)
EstimateCall(answer_text, context_blank) ==
    /\ TextFresh
    /\ estimate' = [called |-> TRUE, answer_text |-> answer_text,
                    context_blank |-> context_blank,
                    label |-> EstimateConfidence(answer_text, context_blank).label,
                    score |-> EstimateConfidence(answer_text, context_blank).score]
    /\ UNCHANGED <<question_text, analysed, variants, retrieval>>
    /\ UNCHANGED textFrame

\* self._retrieve_with_sources(q) on an index that behaves as `reply`
RetrieveCall(q, order, reply) ==
    /\ TextFresh
    /\ retrieval' = [called |-> TRUE, order |-> order, reply |-> reply,
                     out |-> RetrieveWithSources(order, reply)]
    /\ UNCHANGED <<question_text, analysed, variants, estimate>>
    /\ UNCHANGED textFrame

(***************************************************************************)
(* Specifications                                                          *)
(***************************************************************************)
\* _build_context applied to every input of CtxInit
CtxSpecInit == CtxInit /\ GenIdle /\ max_per_minute = 1 /\ SessIdle /\ RestIdle
CtxNext == BuildContextCall
SpecCtx == CtxSpecInit /\ [][CtxNext]_vars

\* one caller issuing generate_answer calls one after the other
GenSpecInit == CtxIdle /\ GenInit /\ SessIdle /\ RestIdle
GenNext ==
    \/ \E t \in Callers, b \in BOOLEAN, d \in Pauses : GenerateAnswer(t, b, d)
    \/ \E t \in Callers : AcqReadClock(t)
    \/ \E t \in Callers : AcqPrune(t)
    \/ \E t \in Callers : AcqTest(t)
    \/ \E t \in Callers : AcqSleep(t)
    \/ \E t \in Callers : AcqAppend(t)
    \/ \E t \in Callers, o \in BackendOutcomes : Attempt(t, o)
    \/ \E t \in Callers : Backoff(t)
    \/ \E t \in Callers : GenReturn(t)
SpecGen == GenSpecInit /\ [][GenNext]_vars

\* the same calls by a thread that keeps running: a statement of acquire
\* that can be executed is executed, and time.sleep returns
AcquireStep ==
    \E t \in Callers :
        AcqReadClock(t) \/ AcqPrune(t) \/ AcqTest(t) \/ AcqSleep(t) \/ AcqAppend(t)
SpecAcq == GenSpecInit /\ [][GenNext]_vars /\ WF_vars(AcquireStep)

\* one caller issuing ask_question calls one after the other, on
\* the service as routers/chat.py constructs it, and one with a budget that
\* the guidance part alone exceeds
AskInit ==
    /\ max_context_chars \in {DefaultMaxContextChars, SmallContextChars}
    /\ retrieved = <<>>
    /\ analysis = [semesters |-> <<>>, focus |-> "general"]
    /\ bundle = NoBundle
    /\ max_per_minute \in 1..MaxRate
    /\ GenIdle
    /\ SessIdle
    /\ RestIdle
\* what the backend does to a call made on behalf of ask_question: an empty
\* text, an enumeration for the post-formatting, a long labelled text, a
\* transient and a non-transient error
AskOutcomes ==
    {[kind |-> "ok", text |-> r, msg |-> <<>>] :
        r \in {<<>>, <<"Answer", ";", " ", "Answer", ";", "Answer">>,
               <<"Essay", "NL", "Confidence:", " ", "high">>}}
    \cup {[kind |-> "raise", text |-> <<>>, msg |-> m] :
             m \in {<<"4","2","9">>, <<"b","a","d"," ","k","e","y">>}}
AskNext ==
    \/ \E t \in Callers, q \in Questions, d \in AskPauses :
          \E order \in Orders(ExpandQuery(q)) :
             \E reply \in [ExpandQuery(q) -> IndexReplies] :
                AskQuestion(t, q, order, reply, d)
    \/ \E t \in Callers : AcqReadClock(t)
    \/ \E t \in Callers : AcqPrune(t)
    \/ \E t \in Callers : AcqTest(t)
    \/ \E t \in Callers : AcqSleep(t)
    \/ \E t \in Callers : AcqAppend(t)
    \/ \E t \in Callers, o \in AskOutcomes : Attempt(t, o)
    \/ \E t \in Callers : Backoff(t)
    \/ \E t \in Callers : AskFinish(t)
    \/ \E t \in Callers : AskReturn(t)
SpecAsk == AskInit /\ [][AskNext]_vars

\* ask_question on questions that name semesters, over an index holding
\* chunks about single semesters
SemNext ==
    \/ \E t \in Callers, q \in SemesterQuestions :
          \E order \in Orders(ExpandQuery(q)) :
             \E reply \in [ExpandQuery(q) -> SemesterReplies] :
                AskQuestion(t, q, order, reply, 0)
    \/ \E t \in Callers : AcqReadClock(t)
    \/ \E t \in Callers : AcqPrune(t)
    \/ \E t \in Callers : AcqTest(t)
    \/ \E t \in Callers : AcqSleep(t)
    \/ \E t \in Callers : AcqAppend(t)
    \/ \E t \in Callers, o \in AskOutcomes : Attempt(t, o)
    \/ \E t \in Callers : Backoff(t)
    \/ \E t \in Callers : AskFinish(t)
    \/ \E t \in Callers : AskReturn(t)
SpecSem == AskInit /\ [][SemNext]_vars

\* uploads processed one after the other by one PDFProcessor
PdfSpecInit ==
    CtxIdle /\ GenIdle /\ max_per_minute = 1 /\ SessIdle /\ TextIdle /\ PdfInit /\ WorkIdle /\ CreditIdle
    /\ DocIdle
PdfNext == \E file \in Paths, store \in StoreOutcomes : ProcessPdf(file, store)
SpecPdf == PdfSpecInit /\ [][PdfNext]_vars

\* requests on the chat endpoints served by two worker threads at once; the
\* store is empty at the start or holds a session an earlier ask wrote
WorkInit ==
    /\ sessions \in {<< >>, [sid \in {"s1"} |-> <<StoredMessage>>]}
    /\ created = [sid \in DOMAIN sessions |-> EpochStart]
    /\ known = DOMAIN sessions
    /\ wall = EpochStart
    /\ response = NoResponse
    /\ pruned = {}
    /\ requests = 0
    /\ WorkIdle
WorkSpecInit ==
    CtxIdle /\ GenIdle /\ max_per_minute = 1 /\ TextIdle /\ PdfIdle /\ WorkInit /\ CreditIdle
    /\ DocIdle
WorkNext ==
    \/ \E w \in Workers, op \in Operations, sid \in SessionIds \cup {NoSession},
          case \in ConcAskCases, pause \in ConcPauses :
          RequestBegin(w, op, sid, case, pause)
    \/ \E w \in Workers : PruneScan(w)
    \/ \E w \in Workers : PruneDelete(w)
    \/ \E w \in Workers : AskInsert(w)
    \/ \E w \in Workers : AskQuestionReturns(w)
    \/ \E w \in Workers : AskAppend(w)
    \/ \E w \in Workers : HistoryGet(w)
    \/ \E w \in Workers : CreateInsert(w)
    \/ \E w \in Workers : ListBegin(w)
    \/ \E w \in Workers : ListLoop(w)
    \/ \E w \in Workers : DeleteCheck(w)
    \/ \E w \in Workers : DeleteDel(w)
SpecWork == WorkSpecInit /\ [][WorkNext]_vars

\* requests of POST /analysis/credits, one after the other
CreditSpecInit ==
    CtxIdle /\ GenIdle /\ max_per_minute = 1 /\ SessIdle /\ TextIdle /\ PdfIdle /\ WorkIdle
    /\ CreditInit /\ DocIdle
CreditNext == CreditsCall \/ CreditsFresh
SpecCredit == CreditSpecInit /\ [][CreditNext]_vars

\* uploads, their background tasks and deletions, interleaved
DocSpecInit ==
    CtxIdle /\ GenIdle /\ max_per_minute = 1 /\ SessIdle /\ TextIdle /\ PdfIdle /\ WorkIdle
    /\ CreditIdle /\ DocIdle
DocNext ==
    \/ \E d \in DocIds, file \in UploadedFiles : UploadPdf(d, file)
    \/ \E d \in DocIds : ProcessBegin(d)
    \/ \E d \in DocIds : ProcessLoad(d)
    \/ \E d \in DocIds : ProcessIndex(d)
    \/ \E d \in DocIds : ProcessComplete(d)
    \/ \E d \in DocIds : ProcessFail(d)
    \/ \E d \in DocIds, supported \in BOOLEAN : DeleteVectors(d, supported)
    \/ \E d \in DocIds : DeleteUnlink(d)
SpecDoc == DocSpecInit /\ [][DocNext]_vars

\* two request threads calling generate_answer on the one GeminiService of
\* routers/chat.py, their steps interleaved
\* a request thread enters generate_answer while the other may be inside it
ConcurrentCall(t) ==
    /\ calls < MaxConcCalls
    /\ GenerateAnswer(t, FALSE, 0)

ConcInit == CtxIdle /\ GenInit /\ SessIdle /\ RestIdle
ConcNext ==
    \/ \E t \in Threads : ConcurrentCall(t)
    \/ \E t \in Threads : AcqReadClock(t)
    \/ \E t \in Threads : AcqPrune(t)
    \/ \E t \in Threads : AcqTest(t)
    \/ \E t \in Threads : AcqSleep(t)
    \/ \E t \in Threads : AcqAppend(t)
    \/ \E t \in Threads, o \in ConcOutcomes : Attempt(t, o)
    \/ \E t \in Threads : Backoff(t)
    \/ \E t \in Threads : GenReturn(t)
SpecConc == ConcInit /\ [][ConcNext]_vars

\* one of the text functions applied to one input
TextSpecInit ==
    CtxIdle /\ GenIdle /\ max_per_minute = 1 /\ SessIdle /\ TextInit /\ PdfIdle /\ WorkIdle /\ CreditIdle
    /\ DocIdle
TextNext ==
    \/ AnalyzeCall
    \/ \E order \in Orders(ExpandQuery(question_text)) : ExpandCall(order)
    \/ \E a \in EstimateTexts, b \in BOOLEAN : EstimateCall(a, b)
    \/ \E q \in Questions :
          \E order \in Orders(ExpandQuery(q)) :
             \E reply \in [ExpandQuery(q) -> IndexReplies] : RetrieveCall(q, order, reply)
SpecText == TextSpecInit /\ [][TextNext]_vars

\* requests on the chat endpoints, served one after the other
SessSpecInit == CtxIdle /\ GenIdle /\ max_per_minute = 1 /\ SessIdle /\ RestIdle
SessNext ==
    \/ \E d \in SessPauses : CreateSession(d)
    \/ \E sid \in SessionIds, d \in SessPauses : History(sid, d)
    \/ \E sid \in SessionIds \cup {NoSession}, c \in AskCases, d \in SessPauses :
          Ask(sid, c.question, c.res, d)
    \/ \E d \in SessPauses : ListSessions(d)
    \/ \E sid \in SessionIds, d \in SessPauses : DeleteSession(sid, d)
SpecSess == SessSpecInit /\ [][SessNext]_vars

(***************************************************************************)
(* Claims about _build_context (checked under SpecCtx)                     *)
(***************************************************************************)

\* C1: the text returned by _build_context is never longer than
\* max_context_chars, the guidance preamble, the citation segments, the
\* joining separators and the coverage summary all counted.
C1_TextWithinBudget ==
    bundle.called => bundle.text_len <= max_context_chars

\* C2: in every returned bundle the i-th source carries index i, and the
\* "[n]" header of the i-th excerpt of the text is that same index.
C2_IndicesFollowPackingOrder ==
    bundle.called =>
        \A i \in 1..Len(bundle.sources) :
            /\ bundle.sources[i].index = i
            /\ bundle.parts[i + 1].idx = bundle.sources[i].index

\* the call is one with requested semesters and chunks none of which mentions one
NoChunkMentions ==
    /\ bundle.called
    /\ analysis.semesters # <<>>
    /\ retrieved # <<>>
    /\ \A i \in 1..Len(retrieved) : ~ContextMentionsSemester(retrieved[i].content, analysis)

\* the segment of the chunk ranked first fits in the budget after the guidance part
FirstSegmentFits ==
    LET sorted_items == SortedByScore(DedupFrom(<<>>, retrieved))
    IN  GuidePart(analysis).len + Segment(1, sorted_items[1]).len <= max_context_chars

\* C14 as stated: with a non-empty semester set and a non-empty chunk list
\* in which no chunk mentions a requested semester, _build_context returns a
\* non-empty text and at least one source.
C14_FallbackAlwaysPacks ==
    NoChunkMentions => (bundle.text_len > 0 /\ bundle.sources # <<>>)

\* C14 amended: the same, provided the segment of the best-ranked chunk fits
\* within max_context_chars after the guidance preamble.
C14_FallbackPacksWhatFits ==
    (NoChunkMentions /\ FirstSegmentFits)
    => (bundle.text_len > 0 /\ bundle.sources # <<>> /\ bundle.sources[1].index = 1)

C14_Witness ==
    /\ NoChunkMentions /\ FirstSegmentFits
    /\ Len(retrieved) > 1
    /\ Len(bundle.sources) > 1

\* C15: _build_context returns the empty bundle, text '' and sources [],
\* when the retrieved list is empty, and also when the guidance preamble
\* leaves no room within max_context_chars for any chunk.
C15_EmptyBundle ==
    LET sorted_items == SortedByScore(DedupFrom(<<>>, retrieved))
        no_room == \A i \in 1..Len(sorted_items) :
                      GuidePart(analysis).len + Segment(i, sorted_items[i]).len
                         > max_context_chars
    IN  (bundle.called /\ (retrieved = <<>> \/ no_room))
        => (bundle.text_len = 0 /\ bundle.sources = <<>>)

\* the places of the text `c` among the excerpts of the returned bundle
Citations(c) ==
    {i \in 1..Len(bundle.sources) :
        bundle.parts[i + 1].kind = "segment" /\ bundle.parts[i + 1].content = c}

\* C16: if the retrieved list holds the same chunk text more than once, the
\* bundle holds at most one citation for that text and its score is the
\* minimum of the duplicates' scores.
C16_DuplicatesCitedOnce ==
    bundle.called =>
        \A k \in 1..Len(retrieved) :
            LET c == retrieved[k].content
            IN  /\ Cardinality(Citations(c)) <= 1
                /\ \A i \in Citations(c) :
                      /\ \A j \in 1..Len(retrieved) :
                            retrieved[j].content = c
                               => bundle.sources[i].score <= retrieved[j].score
                      /\ \E j \in 1..Len(retrieved) :
                            /\ retrieved[j].content = c
                            /\ bundle.sources[i].score = retrieved[j].score

C16_Witness ==
    /\ bundle.called
    /\ \E j, k \in 1..Len(retrieved) :
          /\ j < k
          /\ retrieved[j].content = retrieved[k].content
          /\ retrieved[k].score < retrieved[j].score
          /\ Citations(retrieved[k].content) # {}

\* C27: without a semester filter the packed sources are the longest prefix
\* of the deduplicated chunks sorted ascending by score whose segments fit
\* in the budget after the preamble: scores are non-decreasing, packing
\* stops at the first chunk that would overflow, and no later chunk is packed.
C27_LongestFittingPrefix ==
    (bundle.called /\ analysis.semesters = <<>> /\ retrieved # <<>>) =>
        LET items == SortedByScore(DedupFrom(<<>>, retrieved))
            n == Len(bundle.sources)
            used == GuidePart(analysis).len
                    + SumLens([i \in 1..n |-> Segment(i, items[i])])
        IN  /\ n <= Len(items)
            /\ \A i \in 1..n :
                  /\ bundle.sources[i].index = i
                  /\ bundle.sources[i].score = items[i].score
                  /\ bundle.parts[i + 1].content = items[i].content
            /\ \A i \in 1..(n - 1) : bundle.sources[i].score <= bundle.sources[i + 1].score
            /\ n > 0 => used <= max_context_chars
            /\ n < Len(items) => used + Segment(n + 1, items[n + 1]).len > max_context_chars

C27_Witness ==
    /\ bundle.called /\ analysis.semesters = <<>>
    /\ Len(bundle.sources) = 1
    /\ LET items == SortedByScore(DedupFrom(<<>>, retrieved))
       IN  /\ Len(items) = 3
           /\ bundle.parts[2].len + GuidePart(analysis).len + Segment(3, items[3]).len
                 <= max_context_chars

(***************************************************************************)
(* Claims about RateLimiter and generate_answer (checked under SpecGen)    *)
(***************************************************************************)
\* no max_per_minute + 1 entries of a history of times lie within 60 seconds
WithinQuota(times) ==
    \A i \in 1..(Len(times) - max_per_minute) :
        times[i + max_per_minute] - times[i] > Window

\* the backend raised a transient error on each of the passes lo..hi of thread t
TransientRun(t, lo, hi) ==
    \A k \in lo..hi :
        /\ loc[t].outcomes[k].kind = "raise"
        /\ \E m \in TransientMarkers : Contains(Lower(loc[t].outcomes[k].msg), m)

\* C3: over any sequence of generate_answer calls, retries included, no more
\* than max_per_minute backend invocations start within any 60-second window.
C3_BackendCallsWithinQuota == WithinQuota(invoked)

\* C4: every backend invocation attempt is preceded by its own acquire, so a
\* call of generate_answer has made as many acquire calls as attempts.
C4_AcquirePerAttempt ==
    \A t \in Threads :
        /\ loc[t].invocations <= loc[t].acquires
        /\ pc[t] = "gen_return" => loc[t].acquires = loc[t].invocations

\* C5: generate_answer never raises, invokes the backend at most 3 times, and
\* returns the fallback answer with confidence 0.2 when all 3 attempts raise
\* transient errors.
C5_NeverRaisesFallbackOnExhaustion ==
    \A t \in Threads :
        /\ result[t].kind # "raised"
        /\ loc[t].invocations <= 3
        /\ (pc[t] = "gen_return" /\ Len(loc[t].outcomes) = 3 /\ TransientRun(t, 1, 3))
              => /\ result[t].kind = "fallback"
                 /\ result[t].answer = <<"Fallback", "NL", "NL", "Confidence:", " ", "low">>
                 /\ result[t].confidence * 10 = 2 * ConfUnit

C5_Witness ==
    \E t \in Threads :
        pc[t] = "gen_return" /\ Len(loc[t].outcomes) = 3 /\ TransientRun(t, 1, 3)

\* C7: when the backend raises transient errors on the first n attempts
\* (n = 1 or 2) and then succeeds, generate_answer has invoked it n + 1 times,
\* slept 1 s and then 2 s, and returns the result of the response, not the fallback.
C7_RetryThenSuccess ==
    \A t \in Threads : \A n \in 1..2 :
        (/\ pc[t] = "gen_return"
         /\ Len(loc[t].outcomes) = n + 1
         /\ TransientRun(t, 1, n)
         /\ loc[t].outcomes[n + 1].kind = "ok")
        => /\ loc[t].invocations = n + 1
           /\ loc[t].sleeps = SubSeq(<<100, 200>>, 1, n)
           /\ result[t].kind = "ok"
           /\ result[t].confidence =
                 EstimateConfidence(loc[t].outcomes[n + 1].text, loc[t].context_blank).score
           /\ SubSeq(result[t].answer, 1, Len(Strip(loc[t].outcomes[n + 1].text)))
                 = Strip(loc[t].outcomes[n + 1].text)

C7_Witness ==
    \E t \in Threads :
        /\ pc[t] = "gen_return"
        /\ Len(loc[t].outcomes) = 3
        /\ TransientRun(t, 1, 2)
        /\ loc[t].outcomes[3].kind = "ok"
        /\ loc[t].outcomes[3].text # <<>>

\* C8: after a backend attempt raises a non-transient error, generate_answer
\* sleeps no more, invokes the backend no more, and returns the fallback
\* answer with confidence 0.2.
C8_NonTransientAborts ==
    \A t \in Threads : \A k \in 1..Len(loc[t].outcomes) :
        (/\ loc[t].outcomes[k].kind = "raise"
         /\ \A m \in TransientMarkers : ~Contains(Lower(loc[t].outcomes[k].msg), m))
        => /\ k = Len(loc[t].outcomes)
           /\ loc[t].invocations = k
           /\ Len(loc[t].sleeps) = k - 1
           /\ pc[t] = "gen_return"
           /\ result[t].kind = "fallback"
           /\ result[t].answer = <<"Fallback", "NL", "NL", "Confidence:", " ", "low">>
           /\ result[t].confidence * 10 = 2 * ConfUnit

C8_Witness ==
    \E t \in Threads :
        /\ pc[t] = "gen_return"
        /\ Len(loc[t].outcomes) = 2
        /\ loc[t].outcomes[2].kind = "raise"
        /\ \A m \in TransientMarkers : ~Contains(Lower(loc[t].outcomes[2].msg), m)

\* C10: for one sequential caller, an acquire that finds max_per_minute
\* timestamps in the window returns only after the oldest retained one has
\* left the window, and the recorded timestamps never hold more than
\* max_per_minute within any 60-second slice.
C10_SequentialWindow ==
    /\ WithinQuota(recorded)
    /\ \A t \in Callers :
          (pc[t] = "attempt" /\ loc[t].attempt = 1 /\ loc[t].at_cap)
             => recorded[Len(recorded)] - loc[t].oldest > Window

C10_Witness ==
    \E t \in Callers :
        /\ pc[t] = "attempt" /\ loc[t].attempt = 1 /\ loc[t].at_cap
        /\ Len(recorded) = max_per_minute + 1
        /\ recorded[Len(recorded)] - recorded[1] = Window + Margin

AcquirePcs == {"acq_now", "acq_prune", "acq_test", "acq_sleep", "acq_append"}

C32_SleepsOnlyBetweenAttempts ==
    \A t \in Threads :
        pc[t] = "gen_return" =>
            /\ Len(loc[t].sleeps) < loc[t].invocations
            /\ (Len(loc[t].outcomes) = MaxAttempts /\ TransientRun(t, 1, MaxAttempts))
                  => loc[t].sleeps = <<InitialDelay, 2 * InitialDelay>>

\* C20: the answer generate_answer returns always holds a 'Confidence:'
\* label: on success "\n\nConfidence: <label>" is appended to the stripped
\* backend text when that text holds none, and the fallback answer ends
\* with 'Confidence: low'.
C20_AnswerCarriesConfidenceLabel ==
    \A t \in Threads :
        pc[t] = "gen_return" =>
            LET out == loc[t].outcomes[Len(loc[t].outcomes)]
                n == Len(result[t].answer)
            IN  /\ HasAtom(result[t].answer, "Confidence:")
                /\ (out.kind = "ok" /\ ~HasAtom(out.text, "Confidence:"))
                      => \E label \in {"low", "medium", "high"} :
                            result[t].answer =
                               Strip(out.text) \o <<"NL", "NL", "Confidence:", " ", label>>
                /\ (out.kind = "ok" /\ HasAtom(out.text, "Confidence:"))
                      => result[t].answer = Strip(out.text)
                /\ out.kind = "raise"
                      => SubSeq(result[t].answer, n - 2, n) = <<"Confidence:", " ", "low">>

C20_Witness ==
    \E t \in Threads :
        /\ pc[t] = "gen_return"
        /\ loc[t].outcomes[Len(loc[t].outcomes)].kind = "ok"
        /\ Strip(loc[t].outcomes[Len(loc[t].outcomes)].text) # <<>>
        /\ ~HasAtom(loc[t].outcomes[Len(loc[t].outcomes)].text, "Confidence:")

\* C11: whenever RateLimiter.acquire has returned, call_timestamps holds at
\* most max_per_minute entries and each of them was issued within the last
\* 60 seconds.
C11_WindowHoldsAtMostMax ==
    \A t \in Callers :
        (pc[t] = "attempt" /\ loc[t].invocations = 0)
        => /\ Len(call_timestamps) <= max_per_minute
           /\ \A i \in 1..Len(call_timestamps) : clock - call_timestamps[i] <= Window

\* C12: with two threads calling acquire concurrently on the shared
\* RateLimiter, in every interleaving of their steps no more than
\* max_per_minute acquisitions are recorded within any rolling 60-second slice.
C12_ConcurrentWindow == WithinQuota(recorded)

(***************************************************************************)
(* Claims about ask_question (checked under SpecAsk)                       *)
(***************************************************************************)

\* C6: for every non-empty question and every behaviour of the index and of
\* the backend, ask_question returns without raising an answer with a
\* confidence in [0,1] and a confidence explanation.
C6_AlwaysExplainedAnswer ==
    \A t \in Threads :
        (pc[t] = "ask_return" /\ loc[t].question # <<>>)
        => /\ result[t].kind # "raised"
           /\ {"answer", "confidence", "confidence_explanation"} \subseteq result[t].keys
           /\ 0 <= result[t].confidence /\ result[t].confidence <= ConfUnit

\* C13: when both searches fail for some variant, _retrieve_with_sources
\* does not propagate the exception and returns an empty list, however many
\* earlier variants had returned chunks.
C13_FailedRetrievalIsEmpty ==
    \A t \in Threads :
        loc[t].index_use.failed
        => /\ result[t].kind # "raised"
           /\ loc[t].index_use.returned = 0

\* the question thread t asked is empty or holds whitespace only
BlankQuestion(t) == \A i \in 1..Len(loc[t].question) : loc[t].question[i] \in Whitespace

\* C17: on an empty or whitespace-only question ask_question returns the
\* fixed 'Please provide a question' response with sources [] and confidence
\* 0.0, and calls neither search of the index, nor the rate limiter, nor the
\* generation backend.
C17_BlankQuestionShortCircuits ==
    \A t \in Threads :
        (loc[t].caller = "ask" /\ BlankQuestion(t))
        => /\ pc[t] = "ask_return"
           /\ result[t].answer = <<"PleaseProvide">>
           /\ result[t].sources = <<>>
           /\ result[t].confidence = 0
           /\ loc[t].index_use = NoIndexUse
           /\ loc[t].acquires = 0
           /\ loc[t].invocations = 0

C17_Witness ==
    \E t \in Threads :
        /\ pc[t] = "ask_return"
        /\ loc[t].caller = "ask"
        /\ loc[t].question = <<" ">>
        /\ recorded # <<>>

\* C18: when the index returns no match for any variant, or the packed
\* bundle is empty for another reason, ask_question returns the fixed
\* insufficient-context response with confidence exactly 0.2, no sources and
\* a non-empty follow-up, and never calls generate_answer.
C18_InsufficientContext ==
    \A t \in Threads :
        (/\ loc[t].caller = "ask" /\ ~BlankQuestion(t)
         /\ (loc[t].index_use.returned = 0 \/ loc[t].packed = 0))
        => /\ pc[t] = "ask_return"
           /\ result[t].answer = <<"IDontKnow">>
           /\ result[t].confidence * 10 = 2 * ConfUnit
           /\ result[t].sources = <<>>
           /\ "follow_up" \in result[t].keys /\ result[t].follow_up # ""
           /\ loc[t].acquires = 0
           /\ loc[t].invocations = 0

C18_Witness ==
    \E t \in Threads :
        /\ pc[t] = "ask_return"
        /\ loc[t].caller = "ask" /\ ~BlankQuestion(t)
        /\ loc[t].index_use.scored_calls > 1
        /\ loc[t].index_use.returned = 0

C18_WitnessSmallBudget ==
    \E t \in Threads :
        /\ pc[t] = "ask_return"
        /\ loc[t].caller = "ask"
        /\ loc[t].index_use.returned > 0
        /\ loc[t].packed = 0

\* C19: every return path of ask_question (empty question, insufficient
\* context, normal generation) returns a package with all five fields:
\* answer, sources, confidence, confidence_explanation and follow_up.
C19_FullPackageOnEveryPath ==
    \A t \in Threads :
        pc[t] = "ask_return" => result[t].keys = AllKeys

\* C33: every result of ask_question has confidence 0.0 (empty question),
\* 0.2 (no context, blank backend answer, or generation fallback) or a value
\* in [0.8, 1.0] (successful generation); the 'Moderate confidence'
\* explanation is never returned.
C33_ConfidenceValues ==
    \A t \in Threads :
        (pc[t] = "ask_return" /\ result[t].kind # "raised") =>
            LET c == result[t].confidence
                last == loc[t].outcomes[Len(loc[t].outcomes)]
            IN  /\ result[t].kind = "empty_question" => c = 0
                /\ result[t].kind = "insufficient" => c * 10 = 2 * ConfUnit
                /\ result[t].kind = "answered" =>
                      IF last.kind = "raise" \/ Strip(last.text) = <<>>
                      THEN c * 10 = 2 * ConfUnit
                      ELSE c * 10 >= 8 * ConfUnit /\ c <= ConfUnit
                /\ result[t].confidence_explanation.level # "Moderate confidence"

\* a short answer generated from a packed context: confidence between 0.8 and 1
C33_Witness ==
    \E t \in Threads :
        /\ pc[t] = "ask_return"
        /\ result[t].kind = "answered"
        /\ loc[t].outcomes[Len(loc[t].outcomes)].kind = "ok"
        /\ result[t].confidence * 10 > 8 * ConfUnit
        /\ result[t].confidence < ConfUnit
        /\ result[t].confidence_explanation.level = "High confidence"

\* the call of thread t is one of C24: a question with the credit keyword
\* that names semesters, an index that returned chunks each mentioning a
\* requested semester, and the budget of routers/chat.py, which holds them all
CreditsCase(t) ==
    /\ loc[t].caller = "ask"
    /\ Contains(Lower(loc[t].question), <<"c","r","e","d","i","t">>)
    /\ loc[t].analysis.semesters # <<>>
    /\ loc[t].chunks # {}
    /\ \A c \in loc[t].chunks :
          \E k \in 1..Len(loc[t].analysis.semesters) :
             Contains(Lower(c), <<loc[t].analysis.semesters[k][4]>>)
    /\ max_context_chars = DefaultMaxContextChars

\* C24: for a credits question that names semesters, with an index returning
\* chunks that each mention a requested semester and together fit the
\* budget, ask_question analyses focus = credits, passes a bundle holding
\* every one of those chunks to generation, and returns the follow-up
\* 'Would you like a semester-by-semester credit comparison?'.
C24_CreditsQuestionPacksAll ==
    \A t \in Threads :
        CreditsCase(t)
        => /\ loc[t].analysis.focus = "credits"
           /\ loc[t].cited = loc[t].chunks
           /\ Len(loc[t].sources) = Cardinality(loc[t].chunks)
           /\ loc[t].acquires = 1
           /\ pc[t] = "ask_return"
                 => /\ loc[t].invocations >= 1
                    /\ result[t].kind = "answered"
                    /\ result[t].sources = loc[t].sources
                    /\ result[t].follow_up =
                          "Would you like a semester-by-semester credit comparison?"

C24_Witness ==
    \E t \in Threads :
        /\ CreditsCase(t)
        /\ pc[t] = "ask_return"
        /\ Len(loc[t].analysis.semesters) = 2
        /\ loc[t].chunks = {<<"s","1">>, <<"s","2">>}
        /\ loc[t].index_use.scored_calls = 2

(***************************************************************************)
(* Claims about the session store (checked under SpecSess)                 *)
(***************************************************************************)

\* C9: _prune_sessions removes a session only when its most recent message,
\* or its creation if it has no messages, is more than SESSION_TTL_SECONDS
\* old; a session made by create_session that has no messages yet is found
\* by history, list_sessions and delete_session within 24 hours of its creation.
C9_PrunedOnlyAfterTtl ==
    \A p \in pruned : p.idle > SESSION_TTL_SECONDS

\* the step is a request of the given endpoint, answered with the given status
Served(op, status) ==
    /\ requests' = requests + 1
    /\ response'.op = op /\ response'.status = status

\* the messages session sid holds when a request arrives at time now: none
\* if it is absent or its latest message is older than the TTL
LiveMessages(sid, now) ==
    IF sid \in DOMAIN sessions /\ sessions[sid] # <<>>
       /\ now - sessions[sid][Len(sessions[sid])].ts <= SESSION_TTL_SECONDS
    THEN sessions[sid] ELSE <<>>

\* C21: each successful ask with session_id s appends exactly one message
\* to session s (creating s first if it is absent) and returns session_id = s,
\* no other session's messages change, and a history(s) request issued
\* right after it succeeds and returns the session's list with the new message.
C21_AskAppendsOneMessage ==
    [][ /\ (Served("ask", 200) /\ response'.asked # NoSession)
            => LET s == response'.asked
               IN  /\ response'.session_id = s
                   /\ s \in DOMAIN sessions'
                   /\ Len(sessions'[s]) = Len(LiveMessages(s, wall')) + 1
                   /\ SubSeq(sessions'[s], 1, Len(sessions'[s]) - 1) = LiveMessages(s, wall')
                   /\ sessions'[s][Len(sessions'[s])].ts = wall'
                   /\ \A o \in DOMAIN sessions' \ {s} :
                         o \in DOMAIN sessions /\ sessions'[o] = sessions[o]
        /\ (/\ response.op = "ask" /\ response.status = 200
            /\ requests' = requests + 1
            /\ response'.op = "history" /\ response'.asked = response.session_id
            /\ wall' - wall <= SESSION_TTL_SECONDS)
            => /\ response'.status = 200
               /\ response'.messages = sessions[response.session_id]
               /\ response'.messages # <<>>
      ]_vars

C21_Witness ==
    /\ response.op = "history" /\ response.status = 200
    /\ Len(response.messages) = 2
    /\ Cardinality(DOMAIN sessions) = 2
    /\ wall = EpochStart + SESSION_TTL_SECONDS

\* C22: history and delete_session for an id that is not in the store
\* return 404 and do not create the session, and after a successful
\* delete_session(id) history(id) is not found.
C22_UnknownSessionNotFound ==
    [][ /\ \A op \in {"history", "delete_session"} :
              (/\ requests' = requests + 1
               /\ response'.op = op
               /\ response'.asked \notin DOMAIN sessions)
              => /\ response'.status = 404
                 /\ response'.asked \notin DOMAIN sessions'
                 /\ DOMAIN sessions' \subseteq DOMAIN sessions
        /\ (/\ response.op = "delete_session" /\ response.status = 200
            /\ requests' = requests + 1
            /\ response'.op = "history" /\ response'.asked = response.asked)
            => response'.status = 404
      ]_vars

C22_Witness ==
    /\ response.op = "history" /\ response.status = 404
    /\ response.asked \in known
    /\ sessions # << >>
    /\ response.asked \notin DOMAIN sessions

\* C34: an ask request whose ask_question call raises is answered with 500
\* and leaves the session store as it was apart from pruning: no message is
\* appended to any session and no session is added.
C34_FailedAskLeavesStore ==
    [][Served("ask", 500) => sessions' = Pruned(sessions, wall')]_vars

(***************************************************************************)
(* Claims about the text functions (checked under SpecText)                *)
(***************************************************************************)
\* a keyword of the focus label occurs in the lower-cased question
LabelMatches(label) ==
    \E k \in 1..Len(FocusKeywords) :
        /\ FocusKeywords[k].label = label
        /\ \E w \in FocusKeywords[k].keywords : Contains(Lower(question_text), w)

\* C23: the focus _analyze_question returns is the first label, in the order
\* credits, prerequisite, grading, career, project, that has a keyword
\* occurring in the lower-cased question, and 'general' if none has; it is
\* a function of the question text alone.
C23_FocusIsFirstMatch ==
    analysed # NoAnalysis =>
        LET labels == <<"credits", "prerequisite", "grading", "career", "project">>
            hits == {k \in 1..Len(labels) : LabelMatches(labels[k])}
        IN  /\ hits = {} => analysed.focus = "general"
            /\ \A k \in hits :
                  (\A j \in hits : k <= j) => analysed.focus = labels[k]
            /\ \A k \in 1..Len(analysed.semesters) :
                  /\ Len(analysed.semesters[k]) = 4
                  /\ SubSeq(analysed.semesters[k], 1, 3) = <<"s","e","m">>
                  /\ analysed.semesters[k][4] \in SemDigits

C23_Witness ==
    /\ analysed.focus = "credits"
    /\ LabelMatches("grading") /\ LabelMatches("credits")
    /\ question_text[1] = "E"

\* C29: _expand_query returns the stripped question among its variants, no
\* string twice, and the expansion of a trigger group exactly when one of
\* the group's triggers occurs in the lower-cased question: between 1 and 6
\* variants.
C29_VariantsFollowTriggers ==
    variants # NoVariants =>
        LET q == StripChars(question_text)
            n == Len(variants)
        IN  /\ \E i \in 1..n : variants[i] = q
            /\ \A i, j \in 1..n : variants[i] = variants[j] => i = j
            /\ \A e \in Expansions :
                  (\E i \in 1..n : variants[i] = q \o <<e.suffix>>)
                  <=> (\E w \in e.triggers : Contains(Lower(question_text), w))
            /\ \A i \in 1..n :
                  variants[i] = q \/ \E e \in Expansions : variants[i] = q \o <<e.suffix>>
            /\ 1 <= n /\ n <= 6

C29_Witness ==
    /\ Len(variants) = 2
    /\ \E i \in 1..Len(question_text) : question_text[i] = "R"
    /\ question_text[1] = " "

\* C30: _estimate_confidence returns a score in [0,1]; its label is 'high'
\* iff score > 0.75, 'medium' iff 0.5 < score <= 0.75 and 'low' otherwise;
\* an empty or whitespace-only answer yields ('low', 0.2).
C30_ConfidenceLabelThresholds ==
    estimate.called =>
        /\ 0 <= estimate.score /\ estimate.score <= ConfUnit
        /\ estimate.label = "high" <=> 4 * estimate.score > 3 * ConfUnit
        /\ estimate.label = "medium" <=> (2 * estimate.score > ConfUnit
                                          /\ 4 * estimate.score <= 3 * ConfUnit)
        /\ estimate.label = "low" <=> 2 * estimate.score <= ConfUnit
        /\ (\A i \in 1..Len(estimate.answer_text) : AtomIsSpace(estimate.answer_text[i]))
              => (estimate.label = "low" /\ 10 * estimate.score = 2 * ConfUnit)

C30_Witness ==
    /\ estimate.called
    /\ 4 * estimate.score = 3 * ConfUnit
    /\ estimate.label = "medium"

RECURSIVE ExpectedResults(_, _)
\* the tuples the searched variants contribute, those of a scoreless search
\* with the neutral score
ExpectedResults(searched, reply) ==
    IF searched = <<>> THEN <<>>
    ELSE LET r == reply[Head(searched)]
         IN  (IF r.mode = "scored" THEN r.docs
              ELSE [k \in 1..Len(r.docs) |-> [r.docs[k] EXCEPT !.score = 10000]])
             \o ExpectedResults(Tail(searched), reply)

\* C28: for each variant the scoreless similarity_search is called if and
\* only if the scored search for that variant raised; chunks of the
\* scoreless path are returned with score 1.0, chunks of a scored search
\* with their own score.
C28_ScorelessOnlyAfterFailure ==
    retrieval.called =>
        LET out == retrieval.out
            scored == {out.scored_calls[i] : i \in 1..Len(out.scored_calls)}
            plain == {out.plain_calls[i] : i \in 1..Len(out.plain_calls)}
        IN  /\ Len(out.scored_calls) = Cardinality(scored)
            /\ Len(out.plain_calls) = Cardinality(plain)
            /\ plain = {v \in scored : retrieval.reply[v].mode # "scored"}
            /\ out.results = ExpectedResults(out.scored_calls, retrieval.reply)

C28_Witness ==
    /\ retrieval.called
    /\ Len(retrieval.out.scored_calls) = 3
    /\ Len(retrieval.out.plain_calls) = 1
    /\ Len(retrieval.out.results) = 6
    /\ \E i \in 1..6 : retrieval.out.results[i].score = 10000

(***************************************************************************)
(* Claims about PDFProcessor (checked under SpecPdf)                       *)
(***************************************************************************)

\* the three cases of a path process_pdf must refuse
InvalidPath(file, limit) ==
    \/ ~file.exists
    \/ Lower(file.suffix) # PdfSuffix
    \/ file.size > limit

\* C25: process_pdf validates the file before loading it: for a path that is
\* missing, is not a .pdf, or is larger than max_file_bytes it raises an
\* error, does not load the PDF and leaves the vector store as it was
\* (nothing added, nothing persisted).
C25_InvalidFileRejected ==
    (processed.called /\ InvalidPath(processed.file, max_file_bytes))
        => /\ processed.raised \in {"FileNotFoundError", "ValueError"}
           /\ processed.returned = NoCount
           /\ ~processed.loaded
           /\ vectorstore = processed.before

\* a readable .pdf one byte over the limit is refused by a processor whose
\* store already holds persisted chunks
C25_Witness ==
    /\ processed.called
    /\ processed.file.is_file
    /\ processed.file.suffix = PdfSuffix
    /\ processed.file.pages = 2
    /\ processed.file.size = max_file_bytes + 1
    /\ processed.raised = "ValueError"
    /\ vectorstore.persisted = 2

(***************************************************************************)
(* Claims about the concurrent endpoints (checked under SpecWork)          *)
(***************************************************************************)

\* C26: with ask, create_session, delete_session, list_sessions and history
\* requests running concurrently in worker threads over the shared SESSIONS
\* map, in every interleaving no request fails because another request
\* pruned or removed a session between the ask's session lookup/creation
\* and its append, or changed the map while it was being iterated; so every
\* ask whose answer was generated ends with its message appended.
C26_NoRequestFailsByInterference ==
    \A w \in Workers : worker[w].error = NoError

(***************************************************************************)
(* Claims about calculate_credits (checked under SpecCredit)               *)
(***************************************************************************)
RECURSIVE SumValues(_)
\* the sum of the values of a dict
SumValues(dict) ==
    IF DOMAIN dict = {} THEN 0
    ELSE LET k == CHOOSE x \in DOMAIN dict : TRUE
         IN  dict[k] + SumValues([x \in DOMAIN dict \ {k} |-> dict[x]])

\* C35: calculate_credits(semesters) returns total_credits equal to the sum
\* of the values of its breakdown, for every list of semester names: unknown
\* names, repeated names and names that differ only in letter case included.
C35_TotalIsSumOfBreakdown ==
    credits.called => credits.total_credits = SumValues(credits.breakdown)

(***************************************************************************)
(* Claims about the documents router (checked under SpecDoc)               *)
(***************************************************************************)

\* C36: once delete_document has set a document's status to 'deleted', no
\* later step changes that status: a _process task for the same document
\* that is pending or still running does not overwrite it with 'processing',
\* 'completed' or 'failed', and does not index chunks for the deleted document.
C36_DeletedStaysDeleted ==
    \A d \in DocIds :
        docs[d].was_deleted =>
            /\ docs[d].status = "deleted"
            /\ ~docs[d].changed_after
            /\ ~docs[d].indexed_after

=============================================================================
